---- MODULE Spec2Model ----
(***************************************************************************)
(* GeoCass (KohlJary/geocass): the record store (app/database.py), the     *)
(* credential service (app/auth.py), the account, key and sync endpoints   *)
(* (app/routers/users.py, app/routers/sync.py) and the public reads        *)
(* (app/routers/pages.py, app/routers/directory.py) as a state machine.    *)
(*                                                                         *)
(* Tables are sets of rows.  Every get_db() block is one transaction and   *)
(* one step; a handler that opens several blocks is a process that other   *)
(* workers' blocks may run between (nothing in the code serialises         *)
(* requests: each call opens its own connection on the shared SQLite       *)
(* file).  sqlite3 begins the transaction at the first write of a block,   *)
(* so the SELECT that opens update_tag_counts is a step of its own.        *)
(*                                                                         *)
(* Idealisations: SHA-256 is injective (Sha256 wraps its argument), bcrypt *)
(* verifies exactly the password that was hashed, uuid4 and                *)
(* secrets.token_urlsafe never repeat a value, and two generated keys      *)
(* never lie within one character of each other.  Strings the code slices  *)
(* or compares by prefix (API keys, the Authorization header) are          *)
(* sequences of one-character strings; all other strings are atoms.        *)
(***************************************************************************)
EXTENDS Integers, Sequences, FiniteSets, TLC

VARIABLES
    users,           \* table users
    api_keys,        \* table api_keys
    daemons,         \* table daemons
    directory_tags,  \* table directory_tags
    now,             \* datetime.utcnow()
    issued,          \* history: every key ever generated, [id, user_id, full_key]
    nextId,          \* uuid4(): the next fresh id of each table
    proc,            \* the request each worker is handling, and where it is in it
    ev               \* the step just taken: which request acted, and its response if it ended

vars == <<users, api_keys, daemons, directory_tags, now, issued, nextId, proc, ev>>
store == <<users, api_keys, daemons, directory_tags>>

----------------------------------------------------------------------------
(* Bounds of the model *)

MaxTime == 1        \* the clock runs 0..MaxTime
TailLen == 2        \* characters of a generated key beyond its 8-character prefix
MaxIssued == 2      \* keys generated in one behaviour
MaxDaemonIds == 3   \* daemon ids generated in one behaviour
MaxPage == 3        \* pages and page sizes asked of the directory: 1..MaxPage

(* Program constants *)

PrefixLen == 8      \* full_key[:8], api_key[:8]
BearerLen == 7      \* api_key[7:]
PerPageMin == 1      \* per_page: int = Query(20, ge=1, le=100)
PerPageMax == 100
DiscoverFetch == 3   \* params.append(limit * 3)

ApiKeyPrefix == <<"g", "c", "_">>
BearerScheme == <<"B", "e", "a", "r", "e", "r", " ">>

(* Python None / SQL NULL, one per column type *)
NULL == "NULL"      \* a text column
NoTime == -1        \* a timestamp column
NoId == 0           \* an id
NoText == <<>>      \* a text the model keeps as a sequence

Times == 0..MaxTime
Alphabet == {"a", "b"}
Procs == {"w1", "w2"}

Min(a, b) == IF a < b THEN a ELSE b

----------------------------------------------------------------------------
(* app/auth.py *)

Rep(c, n) == [i \in 1..n |-> c]

\* secrets.token_urlsafe(32): the values the generator may return.  The first
\* PrefixLen - 3 characters fall inside the lookup prefix, the rest outside, so
\* the pool holds keys that share a prefix and keys that do not.
RandomParts ==
    {Rep(h, PrefixLen - Len(ApiKeyPrefix)) \o Rep(t, TailLen) : h \in Alphabet, t \in Alphabet}

Sha256(s) == <<"sha256", s>>

\* bcrypt.hashpw / bcrypt.checkpw
hash_password(password) == <<"bcrypt", password>>
verify_password(plain_password, hashed_password) ==
    /\ Len(hashed_password) = 2
    /\ hashed_password[1] = "bcrypt"
    /\ hashed_password[2] = plain_password

Slice(s, n) == SubSeq(s, 1, Min(n, Len(s)))               \* s[:n]
StartsWith(s, pre) == Len(s) >= Len(pre) /\ SubSeq(s, 1, Len(pre)) = pre

generate_api_key_stored_full(random_part) ==
    LET full_key == ApiKeyPrefix \o random_part
    IN  [full_key |-> full_key, key_hash |-> full_key, key_prefix |-> Slice(full_key, PrefixLen)]

generate_api_key(random_part) ==
    LET full_key == ApiKeyPrefix \o random_part
    IN  [full_key |-> full_key,
         key_hash |-> Sha256(full_key),
         key_prefix |-> Slice(full_key, PrefixLen)]

get_api_keys_by_prefix(prefix) == {k \in api_keys : k.key_prefix = prefix}
get_api_key_by_id(key_id) == {k \in api_keys : k.id = key_id}
get_user_by_id(user_id) == {u \in users : u.id = user_id}
get_user_by_username(username) == {u \in users : u.username = username}
get_user_by_email(email) == {u \in users : u.email = email}

\* The candidate the loop of verify_api_key stops at: the first whose hash is
\* the token's digest.  Digests are injective and keys are never generated
\* twice, so at most one candidate matches and the order of the rows is
\* immaterial.
HashMatches(api_key) ==
    LET tok == IF StartsWith(api_key, BearerScheme)
               THEN SubSeq(api_key, BearerLen + 1, Len(api_key)) ELSE api_key
    IN  {k \in get_api_keys_by_prefix(Slice(tok, PrefixLen)) : k.key_hash = Sha256(tok)}

Expired(key_record) == key_record.expires_at # NoTime /\ key_record.expires_at < now

verify_api_key_no_hash(api_key) ==
    LET tok == IF StartsWith(api_key, BearerScheme)
               THEN SubSeq(api_key, BearerLen + 1, Len(api_key)) ELSE api_key
        m == get_api_keys_by_prefix(Slice(tok, PrefixLen))
    IN  IF api_key = <<>> \/ m = {} THEN NoId
        ELSE LET k == CHOOSE x \in m : TRUE IN IF Expired(k) THEN NoId ELSE k.id

verify_api_key_no_expiry(api_key) ==
    IF api_key = <<>> \/ HashMatches(api_key) = {} THEN NoId
    ELSE (CHOOSE x \in HashMatches(api_key) : TRUE).id

\* The key id verify_api_key returns, NoId for None.
verify_api_key(api_key) ==
    IF api_key = <<>> THEN NoId
    ELSE IF HashMatches(api_key) = {} THEN NoId
    ELSE LET k == CHOOSE x \in HashMatches(api_key) : TRUE
         IN  IF Expired(k) THEN NoId ELSE k.id

verify_loop_first_candidate(matching_keys, key_hash) ==
    IF matching_keys = <<>> THEN NoId ELSE Head(matching_keys).id

\* The loop of verify_api_key over matching_keys in the order the query
\* returned them: the first record whose key_hash is the digest decides.
RECURSIVE verify_loop(_, _)
verify_loop(matching_keys, key_hash) ==
    IF matching_keys = <<>> THEN NoId
    ELSE IF Head(matching_keys).key_hash = key_hash
    THEN IF Expired(Head(matching_keys)) THEN NoId ELSE Head(matching_keys).id
    ELSE verify_loop(Tail(matching_keys), key_hash)

update_api_key_last_used_every_row(keys, key_id) ==
    {[k EXCEPT !.last_used_at = now] : k \in keys}

update_api_key_last_used(keys, key_id) ==
    {IF k.id = key_id THEN [k EXCEPT !.last_used_at = now] ELSE k : k \in keys}

\* api_keys after verify_api_key(api_key): the matched key's last_used_at is set.
AfterVerify(api_key) ==
    IF verify_api_key(api_key) = NoId THEN api_keys
    ELSE update_api_key_last_used(api_keys, verify_api_key(api_key))

Rejection(status, detail) ==
    [status |-> status, detail |-> detail, verified |-> NoId, user |-> NoId, key |-> NoId]

get_current_user_unchecked(authorization) ==
    LET key_id == verify_api_key(authorization)
        any == CHOOSE k \in api_keys : TRUE
    IN  IF api_keys = {} THEN Rejection(401, "Invalid API key")
        ELSE [status |-> 200, detail |-> "ok", verified |-> key_id,
              user |-> IF key_id = NoId THEN any.user_id
                       ELSE (CHOOSE k \in api_keys : k.id = key_id).user_id,
              key |-> IF key_id = NoId THEN any.id ELSE key_id]

\* get_current_user: the dependency's outcome.  verified is what verify_api_key
\* returned; user and key are auth["user"]["id"] and auth["api_key"]["id"].
get_current_user(authorization) ==
    LET key_id == verify_api_key(authorization)
    IN  IF authorization = <<>> THEN Rejection(401, "Missing Authorization header")
        ELSE IF key_id = NoId THEN Rejection(401, "Invalid API key")
        ELSE IF get_api_key_by_id(key_id) = {} THEN Rejection(401, "API key not found")
        ELSE LET key_record == CHOOSE k \in get_api_key_by_id(key_id) : TRUE
             IN  IF get_user_by_id(key_record.user_id) = {}
                 THEN Rejection(401, "User not found")
                 ELSE [status |-> 200, detail |-> "ok", verified |-> key_id,
                       user |-> key_record.user_id, key |-> key_record.id]

\* What get_optional_user returns: None (present is FALSE), or the user and the
\* key record.
NoUser == [present |-> FALSE, user |-> NoId, key |-> NoId]

get_optional_user_prefix_only(authorization) ==
    LET tok == IF StartsWith(authorization, BearerScheme)
               THEN SubSeq(authorization, BearerLen + 1, Len(authorization)) ELSE authorization
        m == get_api_keys_by_prefix(Slice(tok, PrefixLen))
    IN  IF authorization = <<>> \/ m = {} THEN NoUser
        ELSE [present |-> TRUE, user |-> (CHOOSE k \in m : TRUE).user_id,
              key |-> (CHOOSE k \in m : TRUE).id]

\* get_optional_user: None where get_current_user raises.
get_optional_user(authorization) ==
    LET key_id == verify_api_key(authorization)
    IN  IF authorization = <<>> THEN NoUser
        ELSE IF key_id = NoId THEN NoUser
        ELSE IF get_api_key_by_id(key_id) = {} THEN NoUser
        ELSE LET key_record == CHOOSE k \in get_api_key_by_id(key_id) : TRUE
             IN  IF get_user_by_id(key_record.user_id) = {} THEN NoUser
                 ELSE [present |-> TRUE, user |-> key_record.user_id, key |-> key_record.id]

----------------------------------------------------------------------------
(* Requests and responses *)

Idle == [pc |-> "idle"]

\* The generated key whose plaintext the Authorization header carries, raw or
\* after "Bearer ": its id, NoId when the header is no generated key.
Presented(token) ==
    LET tok == IF StartsWith(token, BearerScheme)
               THEN SubSeq(token, BearerLen + 1, Len(token)) ELSE token
    IN  IF \E i \in issued : i.full_key = tok
        THEN (CHOOSE i \in issued : i.full_key = tok).id ELSE NoId

\* at: the time of the step; presented: the key the request's Authorization
\* header carries; verified: what
\* verify_api_key returned for it; body: the key shown in the response.
Event(op, token, status, detail, verified, body) ==
    [op |-> op, at |-> now, presented |-> Presented(token), status |-> status,
     detail |-> detail, verified |-> verified, body |-> body]

\* A step of a handler that does not end the request.
Pending(op, token, verified) == Event(op, token, 0, "", verified, NoText)

IssuedParts == {SubSeq(i.full_key, Len(ApiKeyPrefix) + 1, Len(i.full_key)) : i \in issued}

----------------------------------------------------------------------------
(* app/database.py: users and api_keys *)

\* INSERT INTO users: username and email are UNIQUE.
UsersUniqueViolated(username, email) ==
    \E u \in users : u.username = username \/ u.email = email

create_user(user_id, username, email, password_hash, oauth_provider) ==
    users \cup {[id |-> user_id, username |-> username, display_name |-> username,
                 email |-> email, password_hash |-> password_hash,
                 oauth_provider |-> oauth_provider, created_at |-> now,
                 last_login |-> NoTime]}

update_user_last_login(user_id) ==
    {IF u.id = user_id THEN [u EXCEPT !.last_login = now] ELSE u : u \in users}

create_api_key(keys, key_id, user_id, key_hash, key_prefix, label) ==
    keys \cup {[id |-> key_id, user_id |-> user_id, key_hash |-> key_hash,
                key_prefix |-> key_prefix, label |-> label, created_at |-> now,
                last_used_at |-> NoTime, expires_at |-> NoTime]}

delete_api_key(keys, key_id) == {k \in keys : k.id # key_id}

----------------------------------------------------------------------------
(* app/routers/users.py *)

\* POST /register, up to the INSERT: the two availability checks.
Register(p, username, email, password) ==
    /\ proc[p].pc = "idle"
    /\ UNCHANGED <<store, now, issued, nextId>>
    /\ IF get_user_by_username(username) # {}
       THEN /\ ev' = Event("register", NoText, 400, "Username already taken", NoId, NoText)
            /\ UNCHANGED proc
       ELSE IF get_user_by_email(email) # {}
       THEN /\ ev' = Event("register", NoText, 400, "Email already registered", NoId, NoText)
            /\ UNCHANGED proc
       ELSE /\ proc' = [proc EXCEPT ![p] = [pc |-> "reg_insert", username |-> username,
                                            email |-> email, password |-> password]]
            /\ ev' = Pending("register", NoText, NoId)

\* POST /register, db.create_user: the INSERT fails on a UNIQUE column and the
\* transaction is rolled back (sqlite3.IntegrityError, a 500).
RegisterInsert(p) ==
    /\ proc[p].pc = "reg_insert"
    /\ proc' = [proc EXCEPT ![p] = Idle]
    /\ UNCHANGED <<api_keys, daemons, directory_tags, now, issued>>
    /\ IF UsersUniqueViolated(proc[p].username, proc[p].email)
       THEN /\ ev' = Event("register", NoText, 500, "IntegrityError", NoId, NoText)
            /\ UNCHANGED <<users, nextId>>
       ELSE /\ users' = create_user(nextId.users, proc[p].username, proc[p].email,
                                    hash_password(proc[p].password), NULL)
            /\ nextId' = [nextId EXCEPT !.users = @ + 1]
            /\ ev' = Event("register", NoText, 200, "ok", NoId, NoText)

\* db.create_user(..., oauth_provider=..., oauth_id=...) with no password: an
\* account of an external identity provider.  No endpoint under src/ calls it
\* this way; login's "Account uses OAuth login" branch is written for such rows.
CreateOAuthUser(username, email) ==
    /\ ~UsersUniqueViolated(username, email)
    /\ users' = create_user(nextId.users, username, email, NoText, "oauth")
    /\ nextId' = [nextId EXCEPT !.users = @ + 1]
    /\ ev' = Event("provision", NoText, 0, "", NoId, NoText)
    /\ UNCHANGED <<api_keys, daemons, directory_tags, now, issued, proc>>

\* POST /login: the checks that follow get_user_by_email for a found account.
login_check(user, password) ==
    IF user.password_hash = NoText THEN "Account uses OAuth login"
    ELSE IF ~verify_password(password, user.password_hash) THEN "Invalid email or password"
    ELSE "ok"

\* POST /login
Login(p, email, password) ==
    /\ proc[p].pc = "idle"
    /\ UNCHANGED <<daemons, directory_tags, now, proc>>
    /\ IF get_user_by_email(email) = {}
       THEN /\ ev' = Event("login", NoText, 401, "Invalid email or password", NoId, NoText)
            /\ UNCHANGED <<users, api_keys, issued, nextId>>
       ELSE LET user == CHOOSE u \in get_user_by_email(email) : TRUE
            IN  IF login_check(user, password) # "ok"
                THEN /\ ev' = Event("login", NoText, 401, login_check(user, password), NoId, NoText)
                     /\ UNCHANGED <<users, api_keys, issued, nextId>>
                ELSE \E random_part \in RandomParts \ IssuedParts :
                     LET k == generate_api_key(random_part)
                     IN  /\ Cardinality(issued) < MaxIssued
                         /\ users' = update_user_last_login(user.id)
                         /\ api_keys' = create_api_key(api_keys, nextId.api_keys, user.id,
                                                       k.key_hash, k.key_prefix, "Login session")
                         /\ issued' = issued \cup {[id |-> nextId.api_keys, user_id |-> user.id,
                                                    full_key |-> k.full_key]}
                         /\ nextId' = [nextId EXCEPT !.api_keys = @ + 1]
                         /\ ev' = Event("login", NoText, 200, "ok", NoId, k.full_key)

\* POST /keys
CreateKey(p, authorization, label) ==
    /\ proc[p].pc = "idle"
    /\ UNCHANGED <<users, daemons, directory_tags, now, proc>>
    /\ LET auth == get_current_user(authorization)
       IN  IF auth.status # 200
           THEN /\ ev' = Event("create_key", authorization, auth.status, auth.detail, auth.verified, NoText)
                /\ api_keys' = AfterVerify(authorization)
                /\ UNCHANGED <<issued, nextId>>
           ELSE \E random_part \in RandomParts \ IssuedParts :
                LET k == generate_api_key(random_part)
                IN  /\ Cardinality(issued) < MaxIssued
                    /\ api_keys' = create_api_key(AfterVerify(authorization), nextId.api_keys,
                                                  auth.user, k.key_hash, k.key_prefix, label)
                    /\ issued' = issued \cup {[id |-> nextId.api_keys, user_id |-> auth.user,
                                               full_key |-> k.full_key]}
                    /\ nextId' = [nextId EXCEPT !.api_keys = @ + 1]
                    /\ ev' = Event("create_key", authorization, 200, "ok", auth.verified, k.full_key)

DeleteKey_any_owner(p, authorization, key_id) ==
    /\ proc[p].pc = "idle"
    /\ UNCHANGED <<users, daemons, directory_tags, now, issued, nextId, proc>>
    /\ LET auth == get_current_user(authorization)
           key == get_api_key_by_id(key_id)
       IN  IF auth.status # 200
           THEN /\ ev' = Event("delete_key", authorization, auth.status, auth.detail, auth.verified, NoText)
                /\ api_keys' = AfterVerify(authorization)
           ELSE IF key = {}
           THEN /\ ev' = Event("delete_key", authorization, 404, "API key not found", auth.verified, NoText)
                /\ api_keys' = AfterVerify(authorization)
           ELSE IF key_id = auth.key
           THEN /\ ev' = Event("delete_key", authorization, 400, "Cannot delete the API key you're currently using",
                               auth.verified, NoText)
                /\ api_keys' = AfterVerify(authorization)
           ELSE /\ ev' = Event("delete_key", authorization, 200, "ok", auth.verified, NoText)
                /\ api_keys' = delete_api_key(AfterVerify(authorization), key_id)

DeleteKey_unguarded(p, authorization, key_id) ==
    /\ proc[p].pc = "idle"
    /\ UNCHANGED <<users, daemons, directory_tags, now, issued, nextId, proc>>
    /\ LET auth == get_current_user(authorization)
           key == get_api_key_by_id(key_id)
       IN  IF auth.status # 200
           THEN /\ ev' = Event("delete_key", authorization, auth.status, auth.detail, auth.verified, NoText)
                /\ api_keys' = AfterVerify(authorization)
           ELSE IF key = {} \/ (\E k \in key : k.user_id # auth.user)
           THEN /\ ev' = Event("delete_key", authorization, 404, "API key not found", auth.verified, NoText)
                /\ api_keys' = AfterVerify(authorization)
           ELSE /\ ev' = Event("delete_key", authorization, 200, "ok", auth.verified, NoText)
                /\ api_keys' = delete_api_key(AfterVerify(authorization), key_id)

\* DELETE /keys/{key_id}
DeleteKey(p, authorization, key_id) ==
    /\ proc[p].pc = "idle"
    /\ UNCHANGED <<users, daemons, directory_tags, now, issued, nextId, proc>>
    /\ LET auth == get_current_user(authorization)
           key == get_api_key_by_id(key_id)
       IN  IF auth.status # 200
           THEN /\ ev' = Event("delete_key", authorization, auth.status, auth.detail, auth.verified, NoText)
                /\ api_keys' = AfterVerify(authorization)
           ELSE IF key = {} \/ (\E k \in key : k.user_id # auth.user)
           THEN /\ ev' = Event("delete_key", authorization, 404, "API key not found", auth.verified, NoText)
                /\ api_keys' = AfterVerify(authorization)
           ELSE IF key_id = auth.key
           THEN /\ ev' = Event("delete_key", authorization, 400, "Cannot delete the API key you're currently using",
                               auth.verified, NoText)
                /\ api_keys' = AfterVerify(authorization)
           ELSE /\ ev' = Event("delete_key", authorization, 200, "ok", auth.verified, NoText)
                /\ api_keys' = delete_api_key(AfterVerify(authorization), key_id)

\* GET /whoami (app/routers/sync.py): get_current_user and reads.
Whoami(p, authorization) ==
    /\ proc[p].pc = "idle"
    /\ UNCHANGED <<users, daemons, directory_tags, now, issued, nextId, proc>>
    /\ LET auth == get_current_user(authorization)
       IN  /\ ev' = Event("whoami", authorization, auth.status, auth.detail, auth.verified, NoText)
           /\ api_keys' = AfterVerify(authorization)

\* A handler that takes the optional dependency: get_optional_user(authorization).
OptionalUser(p, authorization) ==
    /\ proc[p].pc = "idle"
    /\ UNCHANGED <<users, daemons, directory_tags, now, issued, nextId, proc>>
    /\ ev' = Event("get_optional_user", authorization, 200, "ok",
                   verify_api_key(authorization), get_optional_user(authorization))
    /\ api_keys' = AfterVerify(authorization)

\* The expires_at column of api_keys.  create_api_key leaves it NULL and nothing
\* under src/ writes it; verify_api_key reads it.  An operator sets it on a row.
SetKeyExpiry(key_id, t) ==
    /\ \E k \in api_keys : k.id = key_id /\ k.expires_at = NoTime
    /\ api_keys' = {IF k.id = key_id THEN [k EXCEPT !.expires_at = t] ELSE k : k \in api_keys}
    /\ ev' = Event("set_expiry", NoText, 0, "", NoId, NoText)
    /\ UNCHANGED <<users, daemons, directory_tags, now, issued, nextId, proc>>

\* The clock advances.
Tick ==
    /\ now < MaxTime
    /\ now' = now + 1
    /\ UNCHANGED <<store, issued, nextId, proc, ev>>

----------------------------------------------------------------------------
(* app/database.py: get_db, daemons and directory_tags *)

get_db_no_rollback(before, work, raised) == work

\* with get_db() as conn: the tables after the block.  work is what the block's
\* statements made of them; an exception inside the block rolls it back.
get_db(before, work, raised) == IF raised THEN before ELSE work

\* json.dumps(request.tags): "[" then each tag between quotes, comma-separated, "]".
RECURSIVE json_dumps_items(_)
json_dumps_items(tags) ==
    IF Len(tags) = 0 THEN <<>>
    ELSE IF Len(tags) = 1 THEN <<"\"", tags[1], "\"">>
    ELSE <<"\"", tags[1], "\"", ",">> \o json_dumps_items(Tail(tags))

json_dumps(tags) == <<"[">> \o json_dumps_items(tags) \o <<"]">>

\* json.loads of such a text: the items between the quotes.
json_loads(text) == [j \in 1..((Len(text) - 1) \div 4) |-> text[4 * j - 1]]

allowed_fields ==
    {"display_name", "tagline", "lineage", "visibility",
     "homepage_json", "stylesheet", "tags_json", "identity_meta_json"}

get_daemon_by_id(daemon_id) == {d \in daemons : d.id = daemon_id}
get_daemon_by_handle_any_user(user_id, handle) == {d \in daemons : d.handle = handle}
get_daemon_by_handle(user_id, handle) ==
    {d \in daemons : d.user_id = user_id /\ d.handle = handle}
get_daemon_by_path(username, handle) ==
    {d \in daemons : d.handle = handle /\ \E u \in users : u.id = d.user_id /\ u.username = username}
get_public_daemons == {d \in daemons : d.visibility = "public"}

DaemonsUniqueViolated_id_only(rows, daemon_id, user_id, handle) ==
    \E d \in rows : d.id = daemon_id

\* INSERT INTO daemons: UNIQUE(user_id, handle), PRIMARY KEY id.
DaemonsUniqueViolated(rows, daemon_id, user_id, handle) ==
    \E d \in rows : d.id = daemon_id \/ (d.user_id = user_id /\ d.handle = handle)

\* The row create_daemon inserts: visibility takes the column's DEFAULT, the
\* columns it does not name are NULL.
create_daemon(rows, daemon_id, user_id, handle, display_name, tagline, lineage) ==
    rows \cup {[id |-> daemon_id, user_id |-> user_id, handle |-> handle,
                   display_name |-> display_name, tagline |-> tagline, lineage |-> lineage,
                   visibility |-> "public", homepage_json |-> NoText, stylesheet |-> NULL,
                   tags_json |-> NoText, identity_meta_json |-> NoText,
                   created_at |-> now, updated_at |-> now, last_synced_at |-> NoTime]}

update_daemon_always_synced(rows, daemon_id, kwargs) ==
    LET updates == DOMAIN kwargs \cap allowed_fields
        set(d, f) ==
            IF f \in updates THEN kwargs[f]
            ELSE IF f \in {"updated_at", "last_synced_at"} THEN now
            ELSE d[f]
    IN  IF updates = {} THEN rows
        ELSE {IF d.id = daemon_id THEN [f \in DOMAIN d |-> set(d, f)] ELSE d : d \in rows}

\* update_daemon(daemon_id, **kwargs) on the table rows: kwargs is a function
\* from argument names to values.
update_daemon(rows, daemon_id, kwargs) ==
    LET updates == DOMAIN kwargs \cap allowed_fields
        set(d, f) ==
            IF f \in updates THEN kwargs[f]
            ELSE IF f = "updated_at" THEN now
            ELSE IF f = "last_synced_at" /\ "homepage_json" \in updates THEN now
            ELSE d[f]
    IN  IF updates = {} THEN rows
        ELSE {IF d.id = daemon_id THEN [f \in DOMAIN d |-> set(d, f)] ELSE d : d \in rows}

\* The rows update_tag_counts computes: for each tag of a public daemon with
\* tags_json, the number of times it occurs in those daemons' lists.
Occurrences(t, tags) == Cardinality({j \in 1..Len(tags) : tags[j] = t})

RECURSIVE SumOccurrences(_, _)
SumOccurrences(t, rows) ==
    IF rows = {} THEN 0
    ELSE LET d == CHOOSE x \in rows : TRUE
         IN  Occurrences(t, json_loads(d.tags_json)) + SumOccurrences(t, rows \ {d})

tag_counts ==
    LET rows == {d \in daemons : d.visibility = "public" /\ d.tags_json # NoText}
        tags == UNION {{json_loads(d.tags_json)[j] : j \in 1..Len(json_loads(d.tags_json))} : d \in rows}
    IN  {[tag |-> t, daemon_count |-> SumOccurrences(t, rows)] : t \in tags}

\* kwargs.get(name): None when the argument was not passed.
KwGet(kwargs, name) == IF name \in DOMAIN kwargs THEN kwargs[name] ELSE NULL

WithDisplayName(display_name, kwargs) ==
    [f \in DOMAIN kwargs \cup {"display_name"} |->
        IF f = "display_name" THEN display_name ELSE kwargs[f]]

upsert_daemon_create_only(rows, daemon_id, user_id, handle, display_name, kwargs) ==
    IF \E d \in rows : d.user_id = user_id /\ d.handle = handle
    THEN update_daemon(rows, (CHOOSE d \in rows : d.user_id = user_id /\ d.handle = handle).id,
                       WithDisplayName(display_name, kwargs))
    ELSE create_daemon(rows, daemon_id, user_id, handle, display_name,
                       KwGet(kwargs, "tagline"), KwGet(kwargs, "lineage"))

upsert_daemon_skip_unchanged(rows, daemon_id, user_id, handle, display_name, kwargs) ==
    LET existing == {d \in rows : d.user_id = user_id /\ d.handle = handle}
        given == WithDisplayName(display_name, kwargs)
    IN  IF existing = {}
        THEN update_daemon(create_daemon(rows, daemon_id, user_id, handle, display_name,
                                         KwGet(kwargs, "tagline"), KwGet(kwargs, "lineage")),
                           daemon_id, kwargs)
        ELSE IF \A d \in existing : \A f \in DOMAIN given \cap allowed_fields : d[f] = given[f]
        THEN rows
        ELSE update_daemon(rows, (CHOOSE d \in existing : TRUE).id, given)

\* upsert_daemon(user_id, handle, display_name, **kwargs) run by one caller with
\* no other writer: the table after it.  daemon_id is what uuid.uuid4() returns
\* on the create path.
upsert_daemon(rows, daemon_id, user_id, handle, display_name, kwargs) ==
    IF \E d \in rows : d.user_id = user_id /\ d.handle = handle
    THEN update_daemon(rows, (CHOOSE d \in rows : d.user_id = user_id /\ d.handle = handle).id,
                       WithDisplayName(display_name, kwargs))
    ELSE update_daemon(create_daemon(rows, daemon_id, user_id, handle, display_name,
                                     KwGet(kwargs, "tagline"), KwGet(kwargs, "lineage")),
                       daemon_id, kwargs)

----------------------------------------------------------------------------
(* app/routers/sync.py *)

homepage_json_of(homepage) == <<"{", "pages", homepage.pages, "}">>
\* json.dumps of an Optional[str] and of an Optional[List[str]] (None is
\* NULL for the one and NoText for the other, a list l is <<l>>).
dumps_str(v) == IF v = NULL THEN <<"null">> ELSE <<"\"", v, "\"">>
dumps_list(v) == IF v = NoText THEN <<"null">> ELSE json_dumps(v[1])

\* json.dumps(request.identity_meta.model_dump()): every field of
\* IdentityMeta, null for those not given.
identity_meta_json_of(identity_meta) ==
    IF identity_meta = NoText THEN NoText
    ELSE <<"{", "lineage", ":">> \o dumps_str(identity_meta.lineage)
         \o <<",", "values", ":">> \o dumps_list(identity_meta.values)
         \o <<",", "interests", ":">> \o dumps_list(identity_meta.interests)
         \o <<",", "communication_style", ":">> \o dumps_str(identity_meta.communication_style)
         \o <<",", "looking_for", ":">> \o dumps_list(identity_meta.looking_for)
         \o <<"}">>
tags_json_of(tags) == IF tags = NoText THEN NoText ELSE json_dumps(tags)

\* The keyword arguments sync_homepage passes to upsert_daemon after
\* user_id, handle and display_name.
sync_kwargs(request) ==
    [tagline |-> request.tagline, lineage |-> request.lineage,
     visibility |-> request.visibility,
     homepage_json |-> homepage_json_of(request.homepage),
     stylesheet |-> request.homepage.stylesheet,
     tags_json |-> tags_json_of(request.tags),
     identity_meta_json |-> identity_meta_json_of(request.identity_meta)]

\* POST /sync up to upsert_daemon's first write: get_current_user, the request
\* serialised, existing = get_daemon_by_handle(user_id, handle), and
\* uuid.uuid4() when there is none.  (The reads are one step with
\* get_current_user: no step of another request changes the outcome of either
\* and is changed by the other.)
SyncBegin(p, authorization, request) ==
    /\ proc[p].pc = "idle"
    /\ UNCHANGED <<users, daemons, directory_tags, now, issued>>
    /\ api_keys' = AfterVerify(authorization)
    /\ LET auth == get_current_user(authorization)
           existing == get_daemon_by_handle(auth.user, request.daemon_handle)
           call == [pc |-> "idle", daemon |-> NoId, op |-> "sync", user |-> auth.user, verified |-> auth.verified,
                    handle |-> request.daemon_handle,
                    display_name |-> request.display_name,
                    kwargs |-> sync_kwargs(request), found |-> FALSE, counts |-> {}]
       IN  IF auth.status # 200
           THEN /\ ev' = Event("sync", authorization, auth.status, auth.detail, auth.verified, NoText)
                /\ UNCHANGED <<proc, nextId>>
           ELSE /\ ev' = Pending("sync", authorization, auth.verified)
                /\ IF existing # {}
                   THEN /\ proc' = [proc EXCEPT ![p] =
                                [call EXCEPT !.pc = "sync_update",
                                             !.daemon = (CHOOSE d \in existing : TRUE).id]]
                        /\ UNCHANGED nextId
                   ELSE /\ nextId.daemons <= MaxDaemonIds
                        /\ proc' = [proc EXCEPT ![p] =
                                [call EXCEPT !.pc = "sync_create", !.daemon = nextId.daemons]]
                        /\ nextId' = [nextId EXCEPT !.daemons = @ + 1]

\* upsert_daemon, the profile exists: update_daemon(existing['id'],
\* display_name=display_name, **kwargs).
SyncUpdate(p) ==
    /\ proc[p].pc = "sync_update"
    /\ UNCHANGED <<users, api_keys, directory_tags, now, issued, nextId>>
    /\ daemons' = update_daemon(daemons, proc[p].daemon,
                                WithDisplayName(proc[p].display_name, proc[p].kwargs))
    /\ proc' = [proc EXCEPT ![p].pc = "sync_tags",
                             ![p].found = get_daemon_by_id(proc[p].daemon) # {}]
    /\ ev' = Pending("sync", NoText, proc[p].verified)

\* upsert_daemon, no profile: create_daemon(...).  The INSERT fails on
\* UNIQUE(user_id, handle) when another request has created the profile
\* meanwhile (sqlite3.IntegrityError, a 500).
SyncCreate(p) ==
    /\ proc[p].pc = "sync_create"
    /\ UNCHANGED <<users, api_keys, directory_tags, now, issued, nextId>>
    /\ LET raised == DaemonsUniqueViolated(daemons, proc[p].daemon, proc[p].user, proc[p].handle)
           work == create_daemon(daemons, proc[p].daemon, proc[p].user, proc[p].handle,
                                 proc[p].display_name, proc[p].kwargs.tagline,
                                 proc[p].kwargs.lineage)
       IN  /\ daemons' = get_db(daemons, work, raised)
           /\ IF raised
              THEN /\ proc' = [proc EXCEPT ![p] = Idle]
                   /\ ev' = Event("sync", NoText, 500, "IntegrityError", proc[p].verified, NoText)
              ELSE /\ proc' = [proc EXCEPT ![p].pc = "sync_patch"]
                   /\ ev' = Pending("sync", NoText, proc[p].verified)

\* upsert_daemon, no profile: update_daemon(daemon_id, **kwargs) after create_daemon.
SyncPatch(p) ==
    /\ proc[p].pc = "sync_patch"
    /\ UNCHANGED <<users, api_keys, directory_tags, now, issued, nextId>>
    /\ daemons' = update_daemon(daemons, proc[p].daemon, proc[p].kwargs)
    /\ proc' = [proc EXCEPT ![p].pc = "sync_tags",
                             ![p].found = get_daemon_by_id(proc[p].daemon) # {}]
    /\ ev' = Pending("sync", NoText, proc[p].verified)

\* The tags of a row, and those of the public rows among rows.
tags_of(d) ==
    IF d.tags_json = NoText THEN {}
    ELSE {json_loads(d.tags_json)[j] : j \in 1..Len(json_loads(d.tags_json))}

public_tags(rows) == UNION {tags_of(d) : d \in {x \in rows : x.visibility = "public"}}

\* The response of a completed DELETE /daemon/{handle}, with the public tags of
\* the row it removed.
Removed(event, tags) ==
    [f \in DOMAIN event \cup {"removed"} |-> IF f = "removed" THEN tags ELSE event[f]]

\* db.update_tag_counts(), its SELECT: the tags of the public daemons are read
\* and counted.  sqlite3 opens the connection's transaction at the first
\* DELETE or INSERT, so the SELECT is a read of its own, and another worker's
\* transaction may commit between it and the writes that follow.
SelectTags(p) ==
    /\ proc[p].pc \in {"sync_tags", "del_tags"}
    /\ UNCHANGED <<store, now, issued, nextId>>
    /\ proc' = [proc EXCEPT ![p].pc = IF proc[p].pc = "sync_tags" THEN "sync_write"
                                      ELSE "del_write",
                             ![p].counts = tag_counts]
    /\ ev' = Pending(proc[p].op, NoText, proc[p].verified)

UpdateTagCounts_autocommit(counts, raised, done) ==
    /\ done \subseteq counts
    /\ done # counts => raised
    /\ directory_tags' = done

\* db.update_tag_counts(), its writes in one transaction: DELETE FROM
\* directory_tags, then an INSERT per tag counted.  done is the rows inserted
\* when the block ends; it ends by an exception (the database is locked, an
\* I/O error) or, with every row inserted, normally.
UpdateTagCounts(counts, raised, done) ==
    /\ done \subseteq counts
    /\ done # counts => raised
    /\ directory_tags' = get_db(directory_tags, done, raised)

\* sync_homepage and delete_daemon end: update_tag_counts() writes, then the
\* response.
\* update_daemon returned None (found is FALSE) when the row was deleted
\* meanwhile, and daemon["id"] raises.
FinishTags(p) ==
    /\ proc[p].pc \in {"sync_write", "del_write"}
    /\ UNCHANGED <<users, api_keys, daemons, now, issued, nextId>>
    /\ proc' = [proc EXCEPT ![p] = Idle]
    /\ \E raised \in BOOLEAN, done \in SUBSET proc[p].counts :
           /\ UpdateTagCounts(proc[p].counts, raised, done)
           /\ ev' = IF raised
                    THEN Event(proc[p].op, NoText, 500, "OperationalError", proc[p].verified, NoText)
                    ELSE IF proc[p].op = "sync" /\ ~proc[p].found
                    THEN Event(proc[p].op, NoText, 500, "TypeError", proc[p].verified, NoText)
                    ELSE IF proc[p].op = "delete_daemon"
                    THEN Removed(Event(proc[p].op, NoText, 200, "ok", proc[p].verified, NoText),
                                 proc[p].removed)
                    ELSE Event(proc[p].op, NoText, 200, "ok", proc[p].verified, NoText)

\* DELETE /daemon/{handle} up to its write: get_current_user, and
\* daemon = db.get_daemon_by_handle(user["id"], handle), 404 when None.
DeleteBegin(p, authorization, handle) ==
    /\ proc[p].pc = "idle"
    /\ UNCHANGED <<users, daemons, directory_tags, now, issued, nextId>>
    /\ api_keys' = AfterVerify(authorization)
    /\ LET auth == get_current_user(authorization)
           daemon == get_daemon_by_handle(auth.user, handle)
       IN  IF auth.status # 200
           THEN /\ ev' = Event("delete_daemon", authorization, auth.status, auth.detail,
                               auth.verified, NoText)
                /\ UNCHANGED proc
           ELSE IF daemon = {}
           THEN /\ ev' = Event("delete_daemon", authorization, 404, "Daemon not found",
                               auth.verified, NoText)
                /\ UNCHANGED proc
           ELSE /\ ev' = Pending("delete_daemon", authorization, auth.verified)
                /\ proc' = [proc EXCEPT ![p] =
                                [pc |-> "del_delete", op |-> "delete_daemon", user |-> auth.user,
                                 verified |-> auth.verified, handle |-> handle,
                                 daemon |-> (CHOOSE d \in daemon : TRUE).id, found |-> FALSE,
                                 removed |-> {}, counts |-> {}]]

\* delete_daemon: DELETE FROM daemons WHERE id = ?
DeleteRow(p) ==
    /\ proc[p].pc = "del_delete"
    /\ UNCHANGED <<users, api_keys, directory_tags, now, issued, nextId>>
    /\ daemons' = {d \in daemons : d.id # proc[p].daemon}
    /\ proc' = [proc EXCEPT ![p].pc = "del_tags",
                             ![p].removed = public_tags({d \in daemons : d.id = proc[p].daemon})]
    /\ ev' = Pending("delete_daemon", NoText, proc[p].verified)

----------------------------------------------------------------------------
(* app/routers/pages.py and app/routers/directory.py: the public reads *)

\* The response of a read: params is the request, body what it returns.
ReadEvent(op, params, status, detail, body) ==
    [op |-> op, at |-> now, params |-> params, status |-> status, detail |-> detail,
     body |-> body]

path_lookup_no_visibility_check(username, handle) ==
    IF get_daemon_by_path(username, handle) = {}
    THEN [status |-> 404, detail |-> "Daemon not found", daemon |-> {}]
    ELSE [status |-> 200, detail |-> "ok", daemon |-> get_daemon_by_path(username, handle)]

\* The opening of serve_daemon_homepage, serve_stylesheet, serve_page and
\* get_daemon_info: get_daemon_by_path, 404 when there is no row, 404 when
\* its visibility is 'private'.
path_lookup(username, handle) ==
    IF get_daemon_by_path(username, handle) = {}
    THEN [status |-> 404, detail |-> "Daemon not found", daemon |-> {}]
    ELSE IF (CHOOSE d \in get_daemon_by_path(username, handle) : TRUE).visibility = "private"
    THEN [status |-> 404, detail |-> "Daemon not found", daemon |-> {}]
    ELSE [status |-> 200, detail |-> "ok", daemon |-> get_daemon_by_path(username, handle)]

\* homepage.get("pages", []) as the slugs of the pages: the document "pagesA"
\* has an index page, "pagesB" an index page and a page "about".
page_slugs(homepage_json) ==
    IF homepage_json = NoText THEN {}
    ELSE IF homepage_json[3] = "pagesA" THEN {"index"}
    ELSE {"index", "about"}

\* render_page: 404 "Page not found" when the document has no page of the slug,
\* else the page's HTML (the profile and the slug stand for it).
render_page(daemon, page_slug) ==
    IF page_slug \notin page_slugs(daemon.homepage_json)
    THEN [status |-> 404, detail |-> "Page not found", body |-> NoText]
    ELSE [status |-> 200, detail |-> "ok", body |-> <<"html", daemon.id, page_slug>>]

\* GET /{username}/{handle}
ServeDaemonHomepage(p, username, handle) ==
    /\ proc[p].pc = "idle"
    /\ UNCHANGED <<store, now, issued, nextId, proc>>
    /\ LET found == path_lookup(username, handle)
           page == render_page(CHOOSE d \in found.daemon : TRUE, "index")
       IN  ev' = IF found.status # 200
                 THEN ReadEvent("serve_daemon_homepage", <<username, handle>>,
                                found.status, found.detail, NoText)
                 ELSE ReadEvent("serve_daemon_homepage", <<username, handle>>,
                                page.status, page.detail, page.body)

\* GET /{username}/{handle}/style.css
ServeStylesheet(p, username, handle) ==
    /\ proc[p].pc = "idle"
    /\ UNCHANGED <<store, now, issued, nextId, proc>>
    /\ LET found == path_lookup(username, handle)
       IN  ev' = IF found.status # 200
                 THEN ReadEvent("serve_stylesheet", <<username, handle>>,
                                found.status, found.detail, NoText)
                 ELSE ReadEvent("serve_stylesheet", <<username, handle>>, 200, "ok",
                                <<"css", (CHOOSE d \in found.daemon : TRUE).id,
                                  (CHOOSE d \in found.daemon : TRUE).stylesheet>>)

\* GET /{username}/{handle}/{page_slug}, page_slug other than "style.css"
ServePage(p, username, handle, page_slug) ==
    /\ proc[p].pc = "idle"
    /\ UNCHANGED <<store, now, issued, nextId, proc>>
    /\ LET found == path_lookup(username, handle)
           page == render_page(CHOOSE d \in found.daemon : TRUE, page_slug)
       IN  ev' = IF found.status # 200
                 THEN ReadEvent("serve_page", <<username, handle>>,
                                found.status, found.detail, NoText)
                 ELSE ReadEvent("serve_page", <<username, handle>>,
                                page.status, page.detail, page.body)

\* GET /api/v1/daemon/{username}/{handle}
GetDaemonInfo(p, username, handle) ==
    /\ proc[p].pc = "idle"
    /\ UNCHANGED <<store, now, issued, nextId, proc>>
    /\ LET found == path_lookup(username, handle)
       IN  ev' = IF found.status # 200
                 THEN ReadEvent("get_daemon_info", <<username, handle>>,
                                found.status, found.detail, NoText)
                 ELSE ReadEvent("get_daemon_info", <<username, handle>>, 200, "ok",
                                <<"info", (CHOOSE d \in found.daemon : TRUE).id>>)

\* ORDER BY d.display_name ASC compares the names as text.
NameOrder == <<"Ada", "Bea", "Cy">>
NameRank(name) == CHOOSE j \in 1..Len(NameOrder) : NameOrder[j] = name

\* Row d1 comes before row d2 under ORDER BY d.updated_at DESC ('recent') or
\* ORDER BY d.display_name ASC ('name'); rows the ordering does not tell apart
\* come in the order of their insertion.
Before(d1, d2, sort) ==
    IF sort = "recent"
    THEN d1.updated_at > d2.updated_at \/ (d1.updated_at = d2.updated_at /\ d1.id < d2.id)
    ELSE \/ NameRank(d1.display_name) < NameRank(d2.display_name)
         \/ (d1.display_name = d2.display_name /\ d1.id < d2.id)

RECURSIVE SortRows(_, _)
SortRows(rows, sort) ==
    IF rows = {} THEN <<>>
    ELSE LET first == CHOOSE d \in rows : \A e \in rows \ {d} : Before(d, e, sort)
         IN  <<first>> \o SortRows(rows \ {first}, sort)

\* SQLite's LIKE compares ASCII letters without regard to case.
Lower(s) == IF s = "X" THEN "x" ELSE IF s = "Y" THEN "y" ELSE s

\* d.tags_json LIKE '%"<tag>"%': the text holds a quote, the tag's characters
\* up to case, and a quote, one after the other.  (No tag among the inputs
\* holds the wildcards % and _.)
tags_like(tags_json, tag) ==
    /\ tags_json # NoText
    /\ \E j \in 1..(Len(tags_json) - 2) :
           /\ tags_json[j] = "\""
           /\ Lower(tags_json[j + 1]) = Lower(tag)
           /\ tags_json[j + 2] = "\""

\* The WHERE clause get_public_daemons and count_public_daemons build:
\* visibility = 'public', then the tag and lineage conditions when given.
directory_filter_any_visibility(d, tag, lineage) ==
    /\ tag # NULL => tags_like(d.tags_json, tag)
    /\ lineage # NULL => d.lineage = lineage

directory_filter(d, tag, lineage) ==
    /\ d.visibility = "public"
    /\ tag # NULL => tags_like(d.tags_json, tag)
    /\ lineage # NULL => d.lineage = lineage

Skip(s, n) == IF n >= Len(s) THEN <<>> ELSE SubSeq(s, n + 1, Len(s))
Take(s, n) == IF n >= Len(s) THEN s ELSE SubSeq(s, 1, n)

get_public_daemons_page_no_offset(limit, offset, tag, lineage, sort) ==
    Take(SortRows({d \in daemons : /\ \E u \in users : u.id = d.user_id
                                   /\ directory_filter(d, tag, lineage)}, sort), limit)

\* get_public_daemons(limit, offset, tag, lineage, sort): the rows of the
\* query with its JOIN on users, ordered, LIMIT ? OFFSET ?.
get_public_daemons_page(limit, offset, tag, lineage, sort) ==
    Take(Skip(SortRows({d \in daemons : /\ \E u \in users : u.id = d.user_id
                                        /\ directory_filter(d, tag, lineage)}, sort),
              offset), limit)

count_public_daemons(tag, lineage) ==
    Cardinality({d \in daemons : directory_filter(d, tag, lineage)})

\* math.ceil(total / per_page)
Ceil(total, per_page) == (total + per_page - 1) \div per_page

\* get_popular_tags(limit): ORDER BY daemon_count DESC LIMIT ?, as the set of
\* rows returned (rows of equal count come in any order: every choice of limit
\* rows that leaves out none with a greater count than one it takes).
get_popular_tags(limit) ==
    {rows \in SUBSET directory_tags :
        /\ Cardinality(rows) = IF Cardinality(directory_tags) < limit
                               THEN Cardinality(directory_tags) ELSE limit
        /\ \A r \in rows, q \in directory_tags \ rows : q.daemon_count <= r.daemon_count}

\* The tags removed by the DELETE /daemon/{handle} that has just completed,
\* when the profile it removed was public.
JustRemoved ==
    IF ev.op = "delete_daemon" /\ ev.status = 200 THEN ev.removed ELSE {}

\* browse_directory(tag, lineage, sort, page, per_page): FastAPI validates the
\* query (sort by its pattern, page >= 1, 1 <= per_page <= 100) and answers
\* 422 when it fails; otherwise the page from get_public_daemons and the total
\* from count_public_daemons.
browse_directory(tag, lineage, sort, page, per_page) ==
    LET offset == (page - 1) * per_page
        total == count_public_daemons(tag, lineage)
        rows == get_public_daemons_page(per_page, offset, tag, lineage, sort)
    IN  IF sort \notin {"recent", "name"} \/ page < 1
           \/ per_page < PerPageMin \/ per_page > PerPageMax
        THEN [status |-> 422, detail |-> "validation", body |-> NoText]
        ELSE [status |-> 200, detail |-> "ok",
              body |-> [daemons |-> [j \in 1..Len(rows) |-> rows[j].id],
                        total |-> total, page |-> page, per_page |-> per_page,
                        total_pages |-> Ceil(total, per_page)]]

\* GET /api/v1/directory.  The handler has one worker here, and its two
\* queries read the same tables.
BrowseDirectory(p, q) ==
    /\ proc[p].pc = "idle"
    /\ UNCHANGED <<store, now, issued, nextId, proc>>
    /\ LET response == browse_directory(q.tag, q.lineage, q.sort, q.page, q.per_page)
       IN  ev' = ReadEvent("browse_directory", [q |-> q, after |-> JustRemoved],
                           response.status, response.detail, response.body)

\* GET /api/v1/directory/tags
GetPopularTags(p, limit) ==
    /\ proc[p].pc = "idle"
    /\ UNCHANGED <<store, now, issued, nextId, proc>>
    /\ \E rows \in get_popular_tags(limit) :
           ev' = ReadEvent("get_popular_tags", [limit |-> limit, after |-> JustRemoved],
                           200, "ok", {[tag |-> r.tag, count |-> r.daemon_count] : r \in rows})

\* identity_meta.get(key, []) after json.loads: the value of the key in the
\* text.  none says it is null (get returns None, the key being there), items
\* is the list otherwise.
meta_get(text, key) ==
    LET j == CHOOSE j \in 1..(Len(text) - 2) : text[j] = key /\ text[j + 1] = ":"
        close == CHOOSE c \in (j + 2)..Len(text) :
                     text[c] = "]" /\ \A b \in (j + 2)..(c - 1) : text[b] # "]"
        list == json_loads(SubSeq(text, j + 2, close))
    IN  IF text[j + 2] = "null"
        THEN [none |-> TRUE, items |-> {}]
        ELSE [none |-> FALSE, items |-> {list[k] : k \in 1..Len(list)}]

\* One filter of discover_daemons on one row: "pass" when the filter is not
\* given or some requested item is in the row's list, "skip" when none is,
\* "raise" when the row's list is null (v in None is a TypeError).
filter_check(text, key, wanted) ==
    IF wanted = NoText THEN "pass"
    ELSE IF meta_get(text, key).none THEN "raise"
    ELSE IF \E j \in 1..Len(wanted) : wanted[j] \in meta_get(text, key).items THEN "pass"
    ELSE "skip"

\* The three filters on one row, in the order the loop applies them.
row_check(d, q) ==
    LET v == filter_check(d.identity_meta_json, "values", q.values)
        i == filter_check(d.identity_meta_json, "interests", q.interests)
        l == filter_check(d.identity_meta_json, "looking_for", q.looking_for)
    IN  IF v # "pass" THEN v ELSE IF i # "pass" THEN i ELSE l

\* The loop of discover_daemons over the rows fetched: results so far, break
\* at limit results.
RECURSIVE discover_loop(_, _, _, _)
discover_loop(rows, q, limit, results) ==
    IF rows = <<>> THEN [raised |-> FALSE, results |-> results]
    ELSE LET check == row_check(Head(rows), q)
         IN  IF check = "raise" THEN [raised |-> TRUE, results |-> results]
             ELSE IF check = "skip" THEN discover_loop(Tail(rows), q, limit, results)
             ELSE IF Len(results) + 1 >= limit
             THEN [raised |-> FALSE, results |-> Append(results, Head(rows).id)]
             ELSE discover_loop(Tail(rows), q, limit, Append(results, Head(rows).id))

\* The query of discover_daemons: public rows with identity metadata, of the
\* lineage when given, most recently updated first, LIMIT limit * 3.
discover_rows(lineage, limit) ==
    Take(SortRows({d \in daemons : /\ \E u \in users : u.id = d.user_id
                                   /\ d.visibility = "public"
                                   /\ d.identity_meta_json # NoText
                                   /\ lineage # NULL => d.lineage = lineage}, "recent"),
         limit * DiscoverFetch)

discover_daemons(q) ==
    LET out == discover_loop(discover_rows(q.lineage, q.limit), q, q.limit, <<>>)
    IN  IF q.limit < PerPageMin \/ q.limit > PerPageMax
        THEN [status |-> 422, detail |-> "validation", body |-> NoText]
        ELSE IF out.raised
        THEN [status |-> 500, detail |-> "TypeError", body |-> NoText]
        ELSE [status |-> 200, detail |-> "ok", body |-> out.results]

\* GET /api/v1/discover
DiscoverDaemons(p, q) ==
    /\ proc[p].pc = "idle"
    /\ UNCHANGED <<store, now, issued, nextId, proc>>
    /\ ev' = ReadEvent("discover_daemons", q, discover_daemons(q).status,
                       discover_daemons(q).detail, discover_daemons(q).body)

----------------------------------------------------------------------------
(* Calls of the database layer by a single caller *)

\* The columns of a profile that upsert_daemon's arguments determine, with the
\* two it sets once.
FieldValues(d) ==
    <<d.id, d.created_at, d.display_name, d.tagline, d.lineage, d.visibility,
      d.homepage_json, d.stylesheet, d.tags_json, d.identity_meta_json>>

\* db.update_daemon(daemon_id, **kwargs)
DbUpdate(daemon_id, kwargs) ==
    /\ daemons' = update_daemon(daemons, daemon_id, kwargs)
    /\ ev' = [op |-> "update_daemon", at |-> now, daemon |-> daemon_id, kwargs |-> kwargs]
    /\ UNCHANGED <<users, api_keys, directory_tags, now, issued, nextId, proc>>

\* db.upsert_daemon(user_id, handle, display_name, **kwargs).  repeat: the call
\* before this one was upsert_daemon with the same arguments; prev is the
\* profile that call left, and first tells that it created the profile.
DbUpsert(user_id, handle, display_name, kwargs) ==
    LET args == <<user_id, handle, display_name, kwargs>>
        existing == get_daemon_by_handle(user_id, handle)
        repeat == ev.op = "upsert_daemon" /\ ev.args = args
    IN  /\ existing = {} => nextId.daemons <= MaxDaemonIds
        /\ daemons' = upsert_daemon(daemons, nextId.daemons, user_id, handle, display_name, kwargs)
        /\ nextId' = IF existing # {} THEN nextId ELSE [nextId EXCEPT !.daemons = @ + 1]
        /\ ev' = [op |-> "upsert_daemon", at |-> now, args |-> args,
                  existed |-> existing # {}, repeat |-> repeat,
                  first |-> repeat /\ ~ev.existed,
                  prev |-> IF repeat THEN {FieldValues(d) : d \in existing} ELSE {}]
        /\ UNCHANGED <<users, api_keys, directory_tags, now, issued, proc>>

----------------------------------------------------------------------------
(* Inputs *)

Usernames == {"alice", "bob"}
Emails == {"a@x", "b@x"}
Passwords == {"pw1", "pw2"}
Labels == {"laptop"}

GeneratedKeys == {ApiKeyPrefix \o r : r \in RandomParts}
MutChars == Alphabet \cup {"z"}

\* The tokens that differ from key in exactly one character.
Mutations(key) == {[key EXCEPT ![i] = c] : i \in 1..Len(key), c \in MutChars} \ {key}

\* Authorization headers a client presents: nothing, the bare scheme, a
\* generated key raw, one as "Bearer <key>", and one with a character changed
\* beyond its lookup prefix.
Tokens ==
    LET key == ApiKeyPrefix \o Rep("a", PrefixLen - Len(ApiKeyPrefix) + TailLen)
    IN  {<<>>, BearerScheme, BearerScheme \o key, [key EXCEPT ![PrefixLen + 1] = "z"]}
            \cup GeneratedKeys

KeyIds == 1..MaxIssued

----------------------------------------------------------------------------
(* Initial states *)

\* After init_database(): every table empty.
InitEmpty ==
    /\ users = {}
    /\ api_keys = {}
    /\ daemons = {}
    /\ directory_tags = {}
    /\ now = 0
    /\ issued = {}
    /\ nextId = [users |-> 1, api_keys |-> 1, daemons |-> 1]
    /\ proc = [p \in Procs |-> Idle]
    /\ ev = Event("init", NoText, 0, "", NoId, NoText)

\* The rows two POST /register calls leave: alice and bob, both with a password.
RegisteredUsers ==
    {[id |-> 1, username |-> "alice", display_name |-> "alice", email |-> "a@x",
      password_hash |-> hash_password("pw1"), oauth_provider |-> NULL,
      created_at |-> 0, last_login |-> NoTime],
     [id |-> 2, username |-> "bob", display_name |-> "bob", email |-> "b@x",
      password_hash |-> hash_password("pw1"), oauth_provider |-> NULL,
      created_at |-> 0, last_login |-> NoTime]}

InitRegistered ==
    /\ users = RegisteredUsers
    /\ api_keys = {}
    /\ daemons = {}
    /\ directory_tags = {}
    /\ now = 0
    /\ issued = {}
    /\ nextId = [users |-> 3, api_keys |-> 1, daemons |-> 1]
    /\ proc = [p \in Procs |-> Idle]
    /\ ev = Event("init", NoText, 0, "", NoId, NoText)

----------------------------------------------------------------------------
(* The credential service: two accounts, one worker, requests one after     *)
(* another.  The clock stands still: no key has an expiry here, so no       *)
(* handler's outcome depends on the time.                                   *)

Init == InitRegistered

Next ==
    \/ \E e \in Emails, pw \in Passwords : Login("w1", e, pw)
    \/ \E t \in Tokens, l \in Labels : CreateKey("w1", t, l)
    \/ \E t \in GeneratedKeys, k \in KeyIds : DeleteKey("w1", t, k)
    \/ \E t \in Tokens : Whoami("w1", t)

Spec == Init /\ [][Next]_vars

----------------------------------------------------------------------------
(* Profile sync: two accounts that each hold a key, two workers whose        *)
(* transactions interleave, requests under alice's key and under a key that  *)
(* is none.  The clock stands still.                                         *)

AliceKey == ApiKeyPrefix \o Rep("a", PrefixLen - Len(ApiKeyPrefix) + TailLen)
BobKey == ApiKeyPrefix \o Rep("b", PrefixLen - Len(ApiKeyPrefix) + TailLen)

\* The api_keys rows two POST /login calls leave.
LoginKeys ==
    {[id |-> 1, user_id |-> 1, key_hash |-> Sha256(AliceKey),
      key_prefix |-> Slice(AliceKey, PrefixLen), label |-> "Login session",
      created_at |-> 0, last_used_at |-> NoTime, expires_at |-> NoTime],
     [id |-> 2, user_id |-> 2, key_hash |-> Sha256(BobKey),
      key_prefix |-> Slice(BobKey, PrefixLen), label |-> "Login session",
      created_at |-> 0, last_used_at |-> NoTime, expires_at |-> NoTime]}

InitSync ==
    /\ users = RegisteredUsers
    /\ api_keys = LoginKeys
    /\ daemons = {}
    /\ directory_tags = {}
    /\ now = 0
    /\ issued = {[id |-> 1, user_id |-> 1, full_key |-> AliceKey],
                 [id |-> 2, user_id |-> 2, full_key |-> BobKey]}
    /\ nextId = [users |-> 3, api_keys |-> 3, daemons |-> 1]
    /\ proc = [p \in Procs |-> Idle]
    /\ ev = Event("init", NoText, 0, "", NoId, NoText)

SyncTokens == {AliceKey, [AliceKey EXCEPT ![PrefixLen + 1] = "z"]}
Handles == {"h1"}

\* An IdentityMeta with values alone, and one with interests alone.
MetaValues ==
    [lineage |-> NULL, values |-> <<<<"v1">>>>, interests |-> NoText,
     communication_style |-> NULL, looking_for |-> NoText]
MetaInterests ==
    [lineage |-> NULL, values |-> NoText, interests |-> <<<<"i1", "i2">>>>,
     communication_style |-> NULL, looking_for |-> NoText]

\* Bodies of POST /sync (SyncRequest).
SyncRequests ==
    {[daemon_handle |-> "h1", display_name |-> "Ada", tagline |-> NULL, lineage |-> NULL,
      homepage |-> [pages |-> "pagesA", stylesheet |-> NULL],
      tags |-> <<"x">>, identity_meta |-> NoText, visibility |-> "public"],
     [daemon_handle |-> "h1", display_name |-> "Bea", tagline |-> "hi", lineage |-> "l1",
      homepage |-> [pages |-> "pagesB", stylesheet |-> "css"],
      tags |-> <<"x", "y">>, identity_meta |-> MetaValues, visibility |-> "private"]}

NextSync ==
    \E p \in Procs :
        \/ \E t \in SyncTokens, r \in SyncRequests : SyncBegin(p, t, r)
        \/ SyncUpdate(p)
        \/ SyncCreate(p)
        \/ SyncPatch(p)
        \/ \E t \in SyncTokens, h \in Handles : DeleteBegin(p, t, h)
        \/ DeleteRow(p)
        \/ SelectTags(p)
        \/ FinishTags(p)
        \/ GetPopularTags(p, PerPageMax)

SpecSync == InitSync /\ [][NextSync]_vars

----------------------------------------------------------------------------
(* Key expiry: alice and bob each hold a key, the clock runs, and an         *)
(* operator sets expires_at on a key.                                        *)

\* Authorization headers: none, a key that was never issued, alice's key with
\* another last character, her key, her key after "Bearer ", and bob's key.
ExpiryTokens ==
    {<<>>, ApiKeyPrefix \o Rep("c", PrefixLen - Len(ApiKeyPrefix) + TailLen)}
    \cup SyncTokens \cup {BobKey, BearerScheme \o AliceKey}

NextExpiry ==
    \/ \E t \in ExpiryTokens : Whoami("w1", t)
    \/ \E t \in ExpiryTokens : OptionalUser("w1", t)
    \/ \E k \in KeyIds, t \in Times : SetKeyExpiry(k, t)
    \/ Tick

SpecExpiry == InitSync /\ [][NextExpiry]_vars

----------------------------------------------------------------------------
(* Accounts: registration by two workers, accounts of an identity provider,  *)
(* and logins.                                                               *)

NextAccounts ==
    \/ \E p \in Procs, u \in Usernames, e \in Emails, pw \in Passwords : Register(p, u, e, pw)
    \/ \E p \in Procs : RegisterInsert(p)
    \/ \E u \in Usernames, e \in Emails : CreateOAuthUser(u, e)
    \/ \E p \in Procs, e \in Emails, pw \in Passwords : Login(p, e, pw)

SpecAccounts == InitEmpty /\ [][NextAccounts]_vars

----------------------------------------------------------------------------
(* Every endpoint that writes, one worker, requests one after another.       *)

ApiTokens ==
    {<<>>, BearerScheme \o ApiKeyPrefix \o Rep("a", PrefixLen - Len(ApiKeyPrefix) + TailLen),
     ApiKeyPrefix \o Rep("a", PrefixLen - Len(ApiKeyPrefix) + TailLen - 1) \o <<"z">>}

\* After alice's POST /register.
InitAlice ==
    /\ users = {u \in RegisteredUsers : u.username = "alice"}
    /\ api_keys = {}
    /\ daemons = {}
    /\ directory_tags = {}
    /\ now = 0
    /\ issued = {}
    /\ nextId = [users |-> 2, api_keys |-> 1, daemons |-> 1]
    /\ proc = [p \in Procs |-> Idle]
    /\ ev = Event("init", NoText, 0, "", NoId, NoText)

NextApi ==
    \/ \E u \in Usernames, e \in Emails : Register("w1", u, e, "pw1")
    \/ RegisterInsert("w1")
    \/ \E pw \in Passwords : Login("w1", "a@x", pw)
    \/ \E t \in ApiTokens, l \in Labels : CreateKey("w1", t, l)
    \/ \E t \in ApiTokens, k \in KeyIds : DeleteKey("w1", t, k)
    \/ \E t \in ApiTokens, r \in SyncRequests : SyncBegin("w1", t, r)
    \/ SyncUpdate("w1")
    \/ SyncCreate("w1")
    \/ SyncPatch("w1")
    \/ \E t \in ApiTokens, h \in Handles : DeleteBegin("w1", t, h)
    \/ DeleteRow("w1")
    \/ SelectTags("w1")
    \/ FinishTags("w1")

SpecApi == InitAlice /\ [][NextApi]_vars

----------------------------------------------------------------------------
(* The database layer called directly: update_daemon and upsert_daemon on    *)
(* alice's profiles, the clock running.                                      *)

DisplayNames == {"Ada", "Bea"}

\* Keyword arguments of update_daemon: none, names outside the allow-list, the
\* homepage document alone and with others, other allow-listed fields.
UpdateKwargs ==
    {<<>>,
     [handle |-> "h2", user_id |-> 2],
     [homepage_json |-> <<"{", "pages", "pagesA", "}">>],
     [homepage_json |-> <<"{", "pages", "pagesB", "}">>, visibility |-> "private",
      created_at |-> MaxTime],
     [tagline |-> "hi"],
     [visibility |-> "unlisted", last_synced_at |-> MaxTime]}

\* Keyword arguments of upsert_daemon.
UpsertKwargs ==
    {<<>>,
     [visibility |-> "private", id |-> 2],
     [tagline |-> "hi", lineage |-> NULL, visibility |-> "public",
      homepage_json |-> <<"{", "pages", "pagesA", "}">>, stylesheet |-> "css",
      tags_json |-> json_dumps(<<"x">>), identity_meta_json |-> NoText]}

NextDb ==
    \/ \E d \in 1..2, kw \in UpdateKwargs : DbUpdate(d, kw)
    \/ \E h \in Handles, n \in DisplayNames, kw \in UpsertKwargs : DbUpsert(1, h, n, kw)
    \/ Tick

SpecDb == InitRegistered /\ [][NextDb]_vars

----------------------------------------------------------------------------
(* The directory: alice and bob sync and delete profiles through one worker, *)
(* and anyone reads the pages, the directory, its tags and the discovery     *)
(* endpoint between their requests.                                          *)

DirHandles == {"h1", "h2"}

\* A body of POST /sync.
Profile(handle, display_name, lineage, pages, tags, identity_meta, visibility) ==
    [daemon_handle |-> handle, display_name |-> display_name, tagline |-> NULL,
     lineage |-> lineage, homepage |-> [pages |-> pages, stylesheet |-> "css"],
     tags |-> tags, identity_meta |-> identity_meta, visibility |-> visibility]

\* The requests alice sends for her two handles, and bob for his one.
DirSyncs ==
    {[token |-> AliceKey,
      request |-> Profile("h1", "Bea", NULL, "pagesA", <<"x">>, NoText, "public")],
     [token |-> AliceKey,
      request |-> Profile("h1", "Ada", "l1", "pagesB", <<"x", "y">>, MetaValues, "private")],
     [token |-> AliceKey,
      request |-> Profile("h2", "Cy", "l1", "pagesB", <<"X", "X">>, MetaInterests, "public")],
     [token |-> BobKey,
      request |-> Profile("h1", "Ada", NULL, "pagesA", <<"y">>, MetaValues, "unlisted")],
     [token |-> BobKey,
      request |-> Profile("h1", "Ada", "l1", "pagesA", <<"y">>, MetaValues, "public")]}

Query(tag, lineage, sort, page, per_page) ==
    [tag |-> tag, lineage |-> lineage, sort |-> sort, page |-> page, per_page |-> per_page]

\* Queries of GET /api/v1/directory.
BrowseQueries ==
    {Query(NULL, NULL, "recent", 1, 1), Query("x", NULL, "name", 1, 2),
     Query(NULL, "l1", "name", 2, 1), Query("y", NULL, "recent", 2, 2),
     Query(NULL, NULL, "recent", 1, PerPageMin - 1),
     Query(NULL, NULL, "recent", 1, PerPageMax + 1)}

\* Queries of GET /api/v1/discover.
DiscoverQueries ==
    {[lineage |-> NULL, values |-> NoText, interests |-> NoText, looking_for |-> NoText,
      limit |-> 1],
     [lineage |-> NULL, values |-> <<"v1">>, interests |-> NoText, looking_for |-> NoText,
      limit |-> 2],
     [lineage |-> "l1", values |-> NoText, interests |-> <<"i2", "i3">>,
      looking_for |-> NoText, limit |-> 2]}

NextDirectory ==
    \/ \E c \in DirSyncs : SyncBegin("w1", c.token, c.request)
    \/ SyncUpdate("w1")
    \/ SyncCreate("w1")
    \/ SyncPatch("w1")
    \/ \E t \in {AliceKey, BobKey}, h \in DirHandles : DeleteBegin("w1", t, h)
    \/ DeleteRow("w1")
    \/ SelectTags("w1")
    \/ FinishTags("w1")
    \/ \E u \in Usernames, h \in DirHandles : ServeDaemonHomepage("w1", u, h)
    \/ \E u \in Usernames, h \in DirHandles : ServeStylesheet("w1", u, h)
    \/ \E u \in Usernames, h \in DirHandles : ServePage("w1", u, h, "about")
    \/ \E u \in Usernames, h \in DirHandles : GetDaemonInfo("w1", u, h)
    \/ \E q \in BrowseQueries : BrowseDirectory("w1", q)
    \/ \E limit \in 1..2 : GetPopularTags("w1", limit)
    \/ \E q \in DiscoverQueries : DiscoverDaemons("w1", q)

\* alice and bob hold the keys of InitSync and have used them.
InitDirectory ==
    /\ users = RegisteredUsers
    /\ api_keys = {[k EXCEPT !.last_used_at = 0] : k \in LoginKeys}
    /\ daemons = {}
    /\ directory_tags = {}
    /\ now = 0
    /\ issued = {[id |-> 1, user_id |-> 1, full_key |-> AliceKey],
                 [id |-> 2, user_id |-> 2, full_key |-> BobKey]}
    /\ nextId = [users |-> 3, api_keys |-> 3, daemons |-> 1]
    /\ proc = [p \in Procs |-> Idle]
    /\ ev = Event("init", NoText, 0, "", NoId, NoText)

SpecDirectory == InitDirectory /\ [][NextDirectory]_vars

----------------------------------------------------------------------------
(* Ownership: alice and bob, each under a key of their own, sync and delete  *)
(* a profile of the same handle and ask to delete keys by id, through two    *)
(* workers whose transactions interleave.                                    *)

OwnerSyncs ==
    {[token |-> AliceKey,
      request |-> Profile("h1", "Bea", NULL, "pagesA", <<"x">>, NoText, "public")],
     [token |-> BobKey,
      request |-> Profile("h1", "Ada", "l1", "pagesB", <<>>, NoText, "private")]}

NextOwners ==
    \E p \in Procs :
        \/ \E c \in OwnerSyncs : SyncBegin(p, c.token, c.request)
        \/ SyncUpdate(p)
        \/ SyncCreate(p)
        \/ SyncPatch(p)
        \/ \E t \in {AliceKey, BobKey} : DeleteBegin(p, t, "h1")
        \/ DeleteRow(p)
        \/ SelectTags(p)
        \/ FinishTags(p)
        \/ \E t \in {AliceKey, BobKey}, k \in KeyIds : DeleteKey(p, t, k)

SpecOwners == InitDirectory /\ [][NextOwners]_vars

----------------------------------------------------------------------------
(* Claims about the credential service *)

StoredKey(id) == CHOOSE k \in api_keys : k.id = id
IsStored(id) == \E k \in api_keys : k.id = id

\* C1: for every generated key stored by create_api_key for account A and still
\* stored as created (no expiry), verify_api_key on the plaintext, raw or after
\* "Bearer ", returns that key and get_current_user resolves to account A; on
\* every token that differs from the plaintext, raw or after "Bearer ", in
\* exactly one character verify_api_key returns None and get_current_user
\* answers 401.
C1_VerifyRoundTrip ==
    \A i \in issued :
        (IsStored(i.id) /\ StoredKey(i.id).expires_at = NoTime) =>
            /\ \A t \in {i.full_key, BearerScheme \o i.full_key} :
                   /\ verify_api_key(t) = i.id
                   /\ get_current_user(t).status = 200
                   /\ get_current_user(t).user = i.user_id
            /\ \A t \in Mutations(i.full_key) \cup Mutations(BearerScheme \o i.full_key) :
                   /\ verify_api_key(t) = NoId
                   /\ get_current_user(t).status = 401

\* C1 witness: GET /whoami has just accepted bob's key while alice holds a key
\* with the same 8-character prefix.
C1_Witness ==
    /\ ev.op = "whoami" /\ ev.status = 200 /\ ev.verified # NoId
    /\ \E k1, k2 \in api_keys :
           /\ k1.id = ev.verified /\ k1.user_id = 2
           /\ k2.user_id = 1 /\ k2.key_prefix = k1.key_prefix

\* A stored key whose hash is the digest of the presented plaintext is usable
\* at the current time, in the two readings of "in the future".
UsableStrict(k, t) == k.expires_at = NoTime \/ k.expires_at > t
UsableInclusive(k, t) == k.expires_at = NoTime \/ k.expires_at >= t

\* C2 as stated: a stored key whose hash matches the presented token is accepted
\* iff its expires_at is absent or in the future (later than now).
C2_Original ==
    \A i \in issued :
        IsStored(i.id) => (verify_api_key(i.full_key) = i.id <=> UsableStrict(StoredKey(i.id), now))

\* C2 amended: a stored key whose hash matches the presented token is accepted
\* iff its expires_at is absent or not earlier than now; on an expired key's
\* plaintext (expires_at earlier than now) verify_api_key returns None, and a
\* request that presents it is answered 401.
C2_ExpiryGate ==
    /\ \A i \in issued :
           IsStored(i.id) =>
               /\ verify_api_key(i.full_key) = i.id <=> UsableInclusive(StoredKey(i.id), now)
               /\ ~UsableInclusive(StoredKey(i.id), now) => verify_api_key(i.full_key) = NoId
    /\ (ev.op = "whoami" /\ ev.presented # NoId /\ IsStored(ev.presented)) =>
           (ev.status = 200 <=> UsableInclusive(StoredKey(ev.presented), ev.at))

\* C2 witness: GET /whoami has just refused the plaintext of a stored key whose
\* expiry has passed.
C2_Witness ==
    /\ ev.op = "whoami" /\ ev.status = 401 /\ ev.presented # NoId
    /\ IsStored(ev.presented)
    /\ StoredKey(ev.presented).expires_at # NoTime
    /\ StoredKey(ev.presented).expires_at < ev.at

\* C3: no stored row holds the plaintext of a generated key: an api_keys row
\* holds the SHA-256 digest and the first 8 characters, which are fewer than the
\* key's; and a response shows a plaintext only when it is the 200 response of
\* the login or create-key call that has just generated it.
C3_PlaintextNeverStored ==
    /\ \A i \in issued :
           /\ \A k \in api_keys : k.key_hash # i.full_key /\ k.key_prefix # i.full_key
           /\ \A u \in users : u.password_hash # i.full_key
           /\ IsStored(i.id) =>
                  /\ StoredKey(i.id).key_hash = Sha256(i.full_key)
                  /\ StoredKey(i.id).key_prefix = SubSeq(i.full_key, 1, PrefixLen)
                  /\ Len(StoredKey(i.id).key_prefix) < Len(i.full_key)
    /\ ev.body # NoText =>
           /\ ev.op \in {"login", "create_key"} /\ ev.status = 200
           /\ \E i \in issued : i.id = nextId.api_keys - 1 /\ i.full_key = ev.body

\* C3 witness: a key has been deleted after two were issued, and one is stored.
C3_Witness ==
    /\ ev.op = "delete_key" /\ ev.status = 200
    /\ Cardinality(issued) = 2 /\ Cardinality(api_keys) = 1

\* C4 as stated: every step of register, login, create key, delete key, sync and
\* delete daemon that changes a table belongs to a request whose credential
\* verify_api_key has accepted.
C4_Original ==
    [][(store' # store) => ev'.verified # NoId]_vars

AuthenticatedOps == {"create_key", "delete_key", "sync", "delete_daemon"}

\* C4 amended: every step of create key, delete key, sync and delete daemon that
\* changes a table belongs to a request whose credential verify_api_key has
\* accepted, and a request of theirs that get_current_user refused (401) has
\* changed nothing.
C4_AuthGate ==
    [][/\ (ev'.op \in AuthenticatedOps /\ store' # store) => ev'.verified # NoId
       /\ (ev'.op \in AuthenticatedOps /\ ev'.status = 401 /\ ev'.verified = NoId)
              => store' = store]_vars

\* C4 witness: DELETE /daemon/{handle} has completed under an accepted key, the
\* profile it removed having been created by an authenticated POST /sync.
C4_Witness ==
    /\ ev.op = "delete_daemon" /\ ev.status = 200 /\ ev.verified # NoId
    /\ daemons = {} /\ nextId.daemons > 1

\* C5: a POST /login that fails is answered 401 "Invalid email or password",
\* the answer given for an email that matches no account, whatever the account's
\* password_hash.
C5_UniformRejection ==
    (ev.op = "login" /\ ev.status # 200) =>
        (ev.status = 401 /\ ev.detail = "Invalid email or password")

----------------------------------------------------------------------------
(* Claims about profile sync *)

\* C6: a step whose get_db block raised (the INSERT of create_daemon on the
\* UNIQUE constraint, update_tag_counts at any point of its DELETE and INSERTs)
\* leaves every table as it was; a sync or delete whose update_tag_counts
\* returned leaves directory_tags holding every row it computed.
C6_Rollback ==
    [][/\ (ev'.status = 500 /\ ev'.detail \in {"IntegrityError", "OperationalError"})
              => store' = store
       /\ (ev'.op \in {"sync", "delete_daemon"}
              /\ (ev'.status = 200 \/ (ev'.status = 500 /\ ev'.detail = "TypeError")))
              => \E p \in Procs : /\ proc[p].pc \in {"sync_write", "del_write"}
                                    /\ proc'[p] = Idle
                                    /\ directory_tags' = proc[p].counts]_vars

\* C6 witness: update_tag_counts has just failed and directory_tags holds the
\* rows of before, which are no longer the counts of the public profiles.
C6_Witness ==
    /\ ev.status = 500 /\ ev.detail = "OperationalError"
    /\ directory_tags # {} /\ directory_tags # tag_counts

\* The profile that the create-then-patch call of worker p has inserted and
\* not yet patched, as the three readers return it.
Readers(p) ==
    {d \in get_daemon_by_path("alice", proc[p].handle)
           \cup get_daemon_by_handle(proc[p].user, proc[p].handle)
           \cup get_public_daemons : d.id = proc[p].daemon}

\* Of the patch fields the call supplied, d holds none.
NonePatched(d, kwargs) ==
    /\ \A f \in {"visibility", "stylesheet"} : kwargs[f] # NULL => d[f] # kwargs[f]
    /\ \A f \in {"homepage_json", "tags_json", "identity_meta_json"} :
           kwargs[f] # NoText => d[f] # kwargs[f]

\* C7: while a first-time sync is between create_daemon and update_daemon, no
\* reader returns its profile holding none of the patch fields the call supplied.
C7_NoPartialProfile ==
    \A p \in Procs :
        proc[p].pc = "sync_patch" => \A d \in Readers(p) : ~NonePatched(d, proc[p].kwargs)

\* C8: the daemons table holds at most one row per (user_id, handle), and the
\* user_id of every row is the id of exactly one account.
C8_OneProfilePerHandle ==
    /\ \A d1, d2 \in daemons :
           (d1.user_id = d2.user_id /\ d1.handle = d2.handle) => d1 = d2
    /\ \A d \in daemons : Cardinality({u \in users : u.id = d.user_id}) = 1

\* C8 witness: of two concurrent first-time syncs of one handle the second
\* INSERT has just failed, and the table holds the one profile.
C8_Witness ==
    /\ ev.op = "sync" /\ ev.status = 500 /\ ev.detail = "IntegrityError"
    /\ Cardinality(get_daemon_by_handle(1, "h1")) = 1

----------------------------------------------------------------------------
(* Claims about the database layer *)

\* C9: a call update_daemon(daemon_id, **kwargs) changes no row but daemon_id's
\* and adds and removes none; with no allow-listed argument the row is
\* unchanged; otherwise each allow-listed argument is stored, every other
\* column but the two timestamps keeps its value, updated_at is the time of the
\* call, and last_synced_at is that same time when homepage_json is among the
\* arguments and keeps its value when it is not.
C9_UpdateFrame ==
    [][(ev'.op = "update_daemon" /\ now' = now) =>
          LET kwargs == ev'.kwargs
              applied == DOMAIN kwargs \cap allowed_fields
          IN  /\ {d.id : d \in daemons'} = {d.id : d \in daemons}
              /\ Cardinality(daemons') = Cardinality(daemons)
              /\ \A d \in daemons, e \in daemons' :
                     d.id = e.id =>
                         /\ (d.id # ev'.daemon \/ applied = {}) => e = d
                         /\ (d.id = ev'.daemon /\ applied # {}) =>
                                /\ \A f \in DOMAIN d \ {"updated_at", "last_synced_at"} :
                                       e[f] = IF f \in applied THEN kwargs[f] ELSE d[f]
                                /\ e.updated_at = now
                                /\ "homepage_json" \in applied =>
                                       e.last_synced_at = now /\ e.last_synced_at = e.updated_at
                                /\ "homepage_json" \notin applied =>
                                       e.last_synced_at = d.last_synced_at]_vars

\* C9 witness: update_daemon has applied allow-listed fields other than
\* homepage_json, with an argument outside the allow-list, to a profile synced
\* earlier: updated_at is the time of the call and last_synced_at is older.
C9_Witness ==
    /\ ev.op = "update_daemon"
    /\ "homepage_json" \notin DOMAIN ev.kwargs
    /\ DOMAIN ev.kwargs \cap allowed_fields # {}
    /\ DOMAIN ev.kwargs \ allowed_fields # {}
    /\ \E d \in daemons :
           /\ d.id = ev.daemon /\ d.updated_at = ev.at
           /\ d.last_synced_at # NoTime /\ d.last_synced_at < d.updated_at

\* C10: after upsert_daemon has been called twice in succession with the same
\* arguments, there is exactly one profile of (user_id, handle), and its id,
\* created_at, display_name, tagline, lineage, visibility, homepage_json,
\* stylesheet, tags_json and identity_meta_json are those the first call left.
C10_UpsertIdempotent ==
    (ev.op = "upsert_daemon" /\ ev.repeat) =>
        LET after == {FieldValues(d) : d \in get_daemon_by_handle(ev.args[1], ev.args[2])}
        IN  Cardinality(get_daemon_by_handle(ev.args[1], ev.args[2])) = 1 /\ after = ev.prev

\* C10 witness: the first of the two calls created the profile with a homepage
\* document, and the second came at a later time.
C10_Witness ==
    /\ ev.op = "upsert_daemon" /\ ev.repeat /\ ev.first
    /\ "homepage_json" \in DOMAIN ev.args[4]
    /\ \E d \in get_daemon_by_handle(ev.args[1], ev.args[2]) : d.created_at < d.updated_at

----------------------------------------------------------------------------
(* Claims about the public reads and the directory *)

PathOps == {"serve_daemon_homepage", "serve_stylesheet", "serve_page", "get_daemon_info"}

\* The rows at the path of the read that has just been answered that are private.
PrivateAtPath ==
    {d \in get_daemon_by_path(ev.params[1], ev.params[2]) : d.visibility = "private"}

\* C11: a read of serve_daemon_homepage, serve_stylesheet, serve_page or
\* get_daemon_info whose path names a private profile is answered as one whose
\* path names no profile: 404 "Daemon not found", and nothing of the record.
C11_PrivateUnreachable ==
    ev.op \in PathOps =>
        ((get_daemon_by_path(ev.params[1], ev.params[2]) = {} \/ PrivateAtPath # {})
            => ev.status = 404 /\ ev.detail = "Daemon not found" /\ ev.body = NoText)

C11_Witness ==
    /\ ev.op \in PathOps
    /\ PrivateAtPath # {}
    /\ ev.status = 404

\* Queries of the directory and of discovery that every reachable store is
\* asked: each tag and lineage the profiles carry or none, both orders, pages
\* and page sizes up to MaxPage; each filter of discovery given or not.
AllBrowseQueries ==
    {Query(tag, lineage, sort, page, per_page) :
        tag \in {NULL, "x", "y"}, lineage \in {NULL, "l1"}, sort \in {"recent", "name"},
        page \in 1..MaxPage, per_page \in 1..MaxPage}

AllDiscoverQueries ==
    [lineage : {NULL, "l1"}, values : {NoText, <<"v1">>}, interests : {NoText, <<"i2", "i3">>},
     looking_for : {NoText, <<"f1">>}, limit : 1..2]

Browse(q) == browse_directory(q.tag, q.lineage, q.sort, q.page, q.per_page)

PublicRows == {d \in daemons : d.visibility = "public"}
PublicIds == {d.id : d \in PublicRows}

\* C12: browse_directory and discover_daemons return public profiles alone: every
\* profile on a page of the directory is public, the total is the number of
\* public profiles the filter admits, and every profile discovery returns is
\* public.
C12_OnlyPublic ==
    /\ \A q \in {x \in AllBrowseQueries : x.page = 1 /\ x.per_page = MaxPage} :
           LET response == Browse(q)
           IN  /\ response.status = 200
               /\ \A j \in 1..Len(response.body.daemons) : response.body.daemons[j] \in PublicIds
               /\ response.body.total =
                      Cardinality({d \in PublicRows :
                                      directory_filter_any_visibility(d, q.tag, q.lineage)})
    /\ \A q \in AllDiscoverQueries :
           LET response == discover_daemons(q)
           IN  response.status = 200 =>
                   \A j \in 1..Len(response.body) : response.body[j] \in PublicIds

\* The directory has answered with a profile while a private or unlisted
\* profile fits the query as well.
C12_Witness ==
    /\ ev.op = "browse_directory"
    /\ ev.status = 200
    /\ Len(ev.body.daemons) >= 1
    /\ \E d \in daemons \ PublicRows :
           directory_filter_any_visibility(d, ev.params.q.tag, ev.params.q.lineage)

\* C13: when a sync or a delete has completed, directory_tags holds one row per
\* tag carried by a public profile, and its daemon_count is the number of
\* public profiles that carry the tag, each profile counted once.
C13_TagAggregate ==
    (ev.op \in {"sync", "delete_daemon"} /\ ev.status = 200) =>
        directory_tags =
            {[tag |-> t, daemon_count |-> Cardinality({d \in PublicRows : t \in tags_of(d)})] :
                t \in public_tags(daemons)}

\* The tags of the profile the delete before this read removed that no public
\* profile carries any more.
GoneTags == {x \in ev.params.after : \A d \in PublicRows : x \notin tags_of(d)}

\* C14: once delete_daemon has removed the only public profile that carried a
\* tag, the directory browsed by that tag shows no profile and a total of 0,
\* and the popular tags do not list the tag.
C14_DeletedTagGone ==
    /\ (ev.op = "browse_directory" /\ ev.status = 200 /\ ev.params.q.tag \in GoneTags)
           => ev.body.total = 0 /\ ev.body.daemons = <<>>
    /\ ev.op = "get_popular_tags" => \A r \in ev.body : r.tag \notin GoneTags

\* The ids of the public profiles a tag and lineage filter admits.
Matching(tag, lineage) ==
    {d.id : d \in {x \in PublicRows : directory_filter_any_visibility(x, tag, lineage)}}

\* min(per_page, max(0, total - (page - 1) * per_page))
PageSize(total, page, per_page) ==
    IF total - (page - 1) * per_page <= 0 THEN 0
    ELSE IF total - (page - 1) * per_page < per_page THEN total - (page - 1) * per_page
    ELSE per_page

\* C15: when browse_directory has answered a query, the total it reports is
\* the number of public profiles the filter admits and total_pages the least
\* number of pages of per_page records that hold them; and for that filter,
\* order and page size every page p holds min(per_page, max(0, total -
\* (p-1)*per_page)) records, and the pages 1..total_pages hold every admitted
\* profile exactly once and nothing else.
C15_Pagination ==
    (ev.op = "browse_directory" /\ ev.status = 200) =>
        LET q == ev.params.q
            total == Cardinality(Matching(q.tag, q.lineage))
            pages == [p \in 1..MaxPage |->
                         browse_directory(q.tag, q.lineage, q.sort, p, q.per_page)]
            last == ev.body.total_pages
        IN  /\ ev.body = pages[q.page].body
            /\ \A p \in 1..MaxPage :
                   /\ pages[p].status = 200
                   /\ pages[p].body.total = total
                   /\ pages[p].body.total_pages * q.per_page >= total
                   /\ (pages[p].body.total_pages - 1) * q.per_page < total
                   /\ Len(pages[p].body.daemons) = PageSize(total, p, q.per_page)
            /\ last <= MaxPage
            /\ \A p \in 1..last : \A j \in 1..Len(pages[p].body.daemons) :
                   pages[p].body.daemons[j] \in Matching(q.tag, q.lineage)
            /\ \A id \in Matching(q.tag, q.lineage) :
                   Cardinality({pj \in (1..last) \X (1..MaxPage) :
                                   /\ pj[2] <= Len(pages[pj[1]].body.daemons)
                                   /\ pages[pj[1]].body.daemons[pj[2]] = id}) = 1

\* The directory has answered for a second page that holds a record, of a
\* listing of two records or more.
C15_Witness ==
    /\ ev.op = "browse_directory"
    /\ ev.status = 200
    /\ ev.params.q.page = 2
    /\ Len(ev.body.daemons) = 1
    /\ ev.body.total >= 2
    /\ ev.body.total_pages >= 2

\* per_page brought into [1, 100].
Clamped(per_page) ==
    IF per_page < PerPageMin THEN PerPageMin
    ELSE IF per_page > PerPageMax THEN PerPageMax ELSE per_page

\* C16: browse_directory serves a request whose per_page is below 1 as one with
\* per_page = 1, and one whose per_page is above 100 as one with per_page =
\* 100; it does not reject it.
C16_PerPageClamped ==
    (ev.op = "browse_directory" /\ ev.params.q.page >= 1) =>
        /\ ev.status = 200
        /\ ev.body = browse_directory(ev.params.q.tag, ev.params.q.lineage, ev.params.q.sort,
                                      ev.params.q.page, Clamped(ev.params.q.per_page)).body

\* The filter list is absent, or the profile's list shares an element with it.
Shares(text, key, wanted) ==
    wanted = NoText \/ \E j \in 1..Len(wanted) : wanted[j] \in meta_get(text, key).items

\* The candidates of a discovery query that share an element with each of the
\* filter lists given, in the order of the candidates, up to limit.
AnyMatch(q) ==
    LET keep == SelectSeq(discover_rows(q.lineage, q.limit),
                          LAMBDA d : /\ Shares(d.identity_meta_json, "values", q.values)
                                     /\ Shares(d.identity_meta_json, "interests", q.interests)
                                     /\ Shares(d.identity_meta_json, "looking_for", q.looking_for))
    IN  Take([j \in 1..Len(keep) |-> keep[j].id], q.limit)

\* C17: discover_daemons returns the candidates whose identity metadata shares
\* an element with every filter list given (values, interests, looking_for);
\* a filter that is absent excludes nobody.
C17_AnyMatch ==
    ev.op = "discover_daemons" => ev.status = 200 /\ ev.body = AnyMatch(ev.params)

\* The profiles of the account a key belongs to that have the handle.
OwnedBy(token, handle) ==
    {d \in daemons : d.user_id = get_current_user(token).user /\ d.handle = handle}

\* A step of DELETE /daemon/{handle} by alice or bob does what the call is to do.
DeleteStep ==
    /\ \A t \in {AliceKey, BobKey}, h \in DirHandles :
          (ev'.op = "delete_daemon" /\ DeleteBegin("w1", t, h)) =>
              IF OwnedBy(t, h) = {}
              THEN /\ ev'.status = 404
                   /\ daemons' = daemons
                   /\ directory_tags' = directory_tags
                   /\ proc'["w1"] = Idle
              ELSE /\ ev'.status = 0
                   /\ proc'["w1"].pc = "del_delete"
                   /\ get_daemon_by_id(proc'["w1"].daemon) = OwnedBy(t, h)
    /\ (ev'.op = "delete_daemon" /\ DeleteRow("w1")) =>
           /\ Cardinality(get_daemon_by_id(proc["w1"].daemon)) = 1
           /\ daemons' = daemons \ get_daemon_by_id(proc["w1"].daemon)
           /\ directory_tags' = directory_tags
    /\ (ev'.op = "delete_daemon" /\ FinishTags("w1")) =>
           /\ daemons' = daemons
           /\ (ev'.status = 200 =>
                  directory_tags' = {[tag |-> x, daemon_count |-> SumOccurrences(x, PublicRows)] :
                                        x \in public_tags(daemons)})

\* C18: delete_daemon(handle) by an authenticated account that owns no profile
\* of the handle answers 404 and changes neither daemons nor directory_tags;
\* when the account owns one, the call removes that row and no other, and
\* having completed it leaves directory_tags rebuilt from the rows that remain.
C18_Delete == [][DeleteStep]_vars

\* A delete has been refused with 404 while the store holds profiles and tags.
C18_Witness ==
    /\ ev.op = "delete_daemon"
    /\ ev.status = 404
    /\ daemons # {}
    /\ directory_tags # {}

\* The token of an Authorization header: what follows "Bearer ", or all of it.
TokenOf(authorization) ==
    IF StartsWith(authorization, BearerScheme)
    THEN SubSeq(authorization, BearerLen + 1, Len(authorization)) ELSE authorization

\* The cases in which a header verifies to nothing: it is empty, no stored key
\* has its token's first 8 characters, no stored key of those characters has
\* its digest, or the key that has its digest is expired.
NoPrefixMatch(authorization) ==
    \A k \in api_keys : k.key_prefix # Slice(TokenOf(authorization), PrefixLen)
NoHashMatch(authorization) ==
    \A k \in api_keys : k.key_prefix = Slice(TokenOf(authorization), PrefixLen)
                            => k.key_hash # Sha256(TokenOf(authorization))
ExpiredMatch(authorization) ==
    \E k \in api_keys : /\ k.key_hash = Sha256(TokenOf(authorization))
                        /\ k.expires_at # NoTime /\ k.expires_at < now

\* C19: for an empty token, a token whose first 8 characters match no stored
\* key, a token whose digest matches no candidate and the token of an expired
\* key, verify_api_key returns None, get_current_user answers 401 and
\* get_optional_user returns None; and a request that has presented such a
\* token has been answered so.
C19_AbsentNotRaised ==
    /\ \A t \in ExpiryTokens :
           (t = <<>> \/ NoPrefixMatch(t) \/ NoHashMatch(t) \/ ExpiredMatch(t)) =>
               /\ verify_api_key(t) = NoId
               /\ get_current_user(t).status = 401
               /\ get_optional_user(t) = NoUser
    /\ (ev.op \in {"whoami", "get_optional_user"} /\ ev.verified = NoId) =>
           IF ev.op = "whoami" THEN ev.status = 401 ELSE ev.body = NoUser

\* get_optional_user has returned None for the token of a stored key that is
\* expired.
C19_Witness ==
    /\ ev.op = "get_optional_user"
    /\ ev.body = NoUser
    /\ ev.presented # NoId
    /\ IsStored(ev.presented)
    /\ StoredKey(ev.presented).expires_at # NoTime
    /\ StoredKey(ev.presented).expires_at < ev.at

\* The orders in which a query without ORDER BY may return a set of rows.
Orders(rows) ==
    {s \in [1..Cardinality(rows) -> rows] :
        \A i, j \in 1..Cardinality(rows) : i # j => s[i] # s[j]}

\* The stored keys that have the first 8 characters of a header's token.
Candidates(authorization) ==
    get_api_keys_by_prefix(Slice(TokenOf(authorization), PrefixLen))

\* C20: whatever the order in which get_api_keys_by_prefix returns the stored
\* keys that share the token's first 8 characters, verify_api_key accepts the
\* token iff one of them has the token's digest as key_hash (and is not
\* expired), and what it returns is the id of that key, never that of another
\* key of the prefix.
C20_EveryCandidateCompared ==
    \A t \in Tokens \ {<<>>} :
        \A order \in Orders(Candidates(t)) :
            LET key_id == verify_loop(order, Sha256(TokenOf(t)))
                hits == {k \in Candidates(t) : k.key_hash = Sha256(TokenOf(t))}
            IN  /\ key_id # NoId <=> \E k \in hits : ~Expired(k)
                /\ key_id # NoId => key_id \in {k.id : k \in hits}
                /\ key_id = verify_api_key(t)

\* GET /whoami has accepted a key of alice while another stored key has the
\* same first 8 characters.
C20_Witness ==
    /\ ev.op = "whoami" /\ ev.status = 200 /\ ev.verified # NoId
    /\ \E k1, k2 \in api_keys :
           /\ k1.id = ev.verified /\ k1.user_id = 1
           /\ k2.id # k1.id /\ k2.key_prefix = k1.key_prefix

----------------------------------------------------------------------------
(* Claims about accounts, the tag aggregate and ownership *)

\* C21: no two accounts share a username or an email, and a register request
\* that does not create its account, because the username or the email is
\* taken, is answered as a conflict (400 "Username already taken" or "Email
\* already registered").
C21_UniqueAccounts ==
    /\ \A u1, u2 \in users :
           u1 # u2 => u1.id # u2.id /\ u1.username # u2.username /\ u1.email # u2.email
    /\ (ev.op = "register" /\ ev.status \notin {0, 200}) =>
           /\ ev.status = 400
           /\ ev.detail \in {"Username already taken", "Email already registered"}

\* A step of any worker replaces directory_tags as a whole or leaves it.
ReplaceStep ==
    /\ directory_tags' # directory_tags =>
           \E p \in Procs : /\ proc[p].pc \in {"sync_write", "del_write"}
                            /\ proc'[p] = Idle
                            /\ ev'.status # 500 \/ ev'.detail # "OperationalError"
                            /\ directory_tags' = proc[p].counts
    /\ (ev'.status = 500 /\ ev'.detail = "OperationalError") => directory_tags' = directory_tags
    /\ ev'.op = "get_popular_tags" =>
           ev'.body = {[tag |-> r.tag, count |-> r.daemon_count] : r \in directory_tags}

\* C22: update_tag_counts replaces directory_tags in one transaction: a step
\* that changes the table leaves in it all the rows the rebuild counted and no
\* other, a rebuild that fails leaves the table as it was, and get_popular_tags
\* run by another worker while a rebuild is under way returns the whole table
\* of before or of after it.
C22_AtomicReplace == [][ReplaceStep]_vars

\* get_popular_tags has answered with the rows of before while another
\* worker's rebuild has counted other rows and not yet written them.
C22_Witness ==
    /\ ev.op = "get_popular_tags"
    /\ ev.body # {}
    /\ \E p \in Procs : /\ proc[p].pc \in {"sync_write", "del_write"}
                        /\ proc[p].counts # directory_tags

\* C23: when a sync or a delete has completed, its rebuild having returned, and
\* no other request is under way, directory_tags holds the counts of the tags
\* of the public profiles now stored, whatever it held before (also the rows a
\* failed rebuild left behind).
C23_SelfHeal ==
    (/\ ev.op \in {"sync", "delete_daemon"}
     /\ ev.status = 200
     /\ \A p \in Procs : proc[p].pc = "idle")
        => directory_tags = tag_counts

\* A request that runs verify_api_key stamps the key it verified and nothing else.
LastUsedStep ==
    (ev'.op \in {"whoami", "get_optional_user"} /\ now' = now) =>
        /\ users' = users /\ daemons' = daemons /\ directory_tags' = directory_tags
        /\ IF ev'.verified = NoId
           THEN api_keys' = api_keys
           ELSE /\ \E k \in api_keys : k.id = ev'.verified
                /\ api_keys' = {IF k.id = ev'.verified THEN [k EXCEPT !.last_used_at = now] ELSE k :
                                   k \in api_keys}

\* C24: a call of verify_api_key that succeeds sets last_used_at of the key it
\* matched to the time of the call and changes no other column and no other
\* row; a call that fails (no token, unknown prefix, other digest, expired key)
\* leaves every api_keys row as it was.
C24_LastUsed == [][LastUsedStep]_vars

\* GET /whoami has stamped the key it verified while another key keeps an
\* earlier last_used_at or none.
C24_Witness ==
    /\ ev.op = "whoami" /\ ev.verified # NoId
    /\ \E k1, k2 \in api_keys :
           /\ k1.id = ev.verified /\ k1.last_used_at = ev.at
           /\ k2.id # k1.id /\ k2.last_used_at # ev.at
    /\ ev.at > 0

\* upsert_daemon on a profile that exists stamps it with the time of the call.
BumpStep ==
    (ev'.op = "upsert_daemon" /\ now' = now /\ ev'.existed) =>
        \A d \in get_daemon_by_handle(ev'.args[1], ev'.args[2]) :
            \E e \in daemons' :
                /\ e.id = d.id
                /\ e.created_at = d.created_at
                /\ e.updated_at = now
                /\ "homepage_json" \in DOMAIN ev'.args[4] => e.last_synced_at = now
                /\ "homepage_json" \notin DOMAIN ev'.args[4] => e.last_synced_at = d.last_synced_at

\* C25: upsert_daemon on an existing (user_id, handle) sets updated_at, and
\* last_synced_at when homepage_json is among its arguments, to the time of
\* the call, also when every argument equals what is stored; created_at stays.
C25_AlwaysBumps == [][BumpStep]_vars

\* upsert_daemon has been repeated with the arguments of the call before, on a
\* profile that holds their values already, at a later time: the profile's
\* fields are those of before and its updated_at is the time of this call.
C25_Witness ==
    /\ ev.op = "upsert_daemon" /\ ev.repeat /\ ev.existed
    /\ \E d \in get_daemon_by_handle(ev.args[1], ev.args[2]) :
           /\ FieldValues(d) \in ev.prev
           /\ d.updated_at = ev.at
           /\ d.created_at < d.updated_at
           /\ d.last_synced_at \in {NoTime, ev.at}

\* C26: while a first sync that asks for visibility 'private' or 'unlisted' is
\* between its create_daemon and its update_daemon, get_public_daemons does not
\* list its profile and get_daemon_by_path does not return it as public.
C26_NeverPublic ==
    \A p \in Procs :
        (proc[p].pc = "sync_patch" /\ proc[p].kwargs.visibility \in {"private", "unlisted"}) =>
            /\ \A d \in get_public_daemons : d.id # proc[p].daemon
            /\ \A u \in users : u.id = proc[p].user =>
                   \A d \in get_daemon_by_path(u.username, proc[p].handle) :
                       d.id = proc[p].daemon => d.visibility # "public"

\* The eight mutable fields of d are the values the sync of worker p supplied.
FromCall(d, p) ==
    \A f \in allowed_fields : d[f] = WithDisplayName(proc[p].display_name, proc[p].kwargs)[f]

\* C27: when two concurrent syncs of one (account, handle) have both run their
\* upsert_daemon, the mutable fields of the profile are those of one of the
\* two calls.
C27_NoMixture ==
    \A p, q \in Procs :
        ( /\ p # q
          /\ proc[p].pc \in {"sync_tags", "sync_write"} /\ proc[q].pc \in {"sync_tags", "sync_write"}
          /\ proc[p].op = "sync" /\ proc[q].op = "sync"
          /\ proc[p].found /\ proc[q].found
          /\ proc[p].user = proc[q].user /\ proc[p].handle = proc[q].handle ) =>
            \A d \in get_daemon_by_handle(proc[p].user, proc[p].handle) :
                FromCall(d, p) \/ FromCall(d, q)

\* The ids of the stored credentials.
KeyIdsOf(rows) == {k.id : k \in rows}

\* No token of a credential that was issued and is no longer stored verifies.
Revoked ==
    \A i \in issued :
        ~IsStored(i.id) =>
            \A t \in {i.full_key, BearerScheme \o i.full_key} :
                /\ verify_api_key(t) = NoId
                /\ get_current_user(t).status = 401

\* DELETE /keys/{key_id} naming the credential of the request answers 400 and
\* leaves api_keys as get_current_user left it; a delete that answers 200 has
\* not removed the credential of the request; only a 200 removes a credential.
GuardStep ==
    /\ \A t \in GeneratedKeys, k \in KeyIds :
           (ev'.op = "delete_key" /\ verify_api_key(t) = k /\ DeleteKey("w1", t, k)) =>
               /\ ev'.status = 400
               /\ api_keys' = update_api_key_last_used(api_keys, k)
    /\ (ev'.op = "delete_key" /\ ev'.status = 200) =>
           /\ ev'.verified \in KeyIdsOf(api_keys')
           /\ Cardinality(api_keys') = Cardinality(api_keys) - 1
    /\ KeyIdsOf(api_keys) \ KeyIdsOf(api_keys') # {} => (ev'.op = "delete_key" /\ ev'.status = 200)

\* The same with the 400 leaving every column of api_keys as it was.
GuardStepStoreUnchanged ==
    /\ GuardStep
    /\ \A t \in GeneratedKeys, k \in KeyIds :
           (ev'.op = "delete_key" /\ verify_api_key(t) = k /\ DeleteKey("w1", t, k)) => api_keys' = api_keys

\* C28: a credential removed by DELETE /keys/{key_id} never verifies again; a
\* request to delete the credential that authenticated it is rejected with
\* 400, removing nothing and changing only that credential's last_used_at;
\* a completed delete has not removed the credential it was authenticated with.
C28_Revocation == []Revoked /\ [][GuardStep]_vars

\* C28 as stated: the rejected request leaves the store unchanged.
C28_StoreUnchanged == []Revoked /\ [][GuardStepStoreUnchanged]_vars

\* A credential has been deleted under another credential of its account, and
\* the deleted one, presented after that, has been answered 401.
C28_Witness ==
    /\ ev.op = "whoami" /\ ev.status = 401 /\ ev.detail = "Invalid API key"
    /\ \E i \in issued : ~IsStored(i.id) /\ ev.presented = i.id
    /\ api_keys # {}

\* The account a key was issued to.
OwnerOf(key_id) == (CHOOSE i \in issued : i.id = key_id).user_id

\* The rows of a table that an account owns.
RowsOf(rows, user_id) == {r \in rows : r.user_id = user_id}

\* A step of sync_homepage, delete_daemon or the key-deletion endpoint leaves
\* the profiles and the credentials of every account but the one whose
\* credential authenticated the request as they were, and the accounts too.
IsolationStep ==
    ev'.op \in {"sync", "delete_daemon", "delete_key"} =>
        /\ users' = users
        /\ \A b \in users :
               (ev'.verified = NoId \/ OwnerOf(ev'.verified) # b.id) =>
                   /\ RowsOf(daemons', b.id) = RowsOf(daemons, b.id)
                   /\ RowsOf(api_keys', b.id) = RowsOf(api_keys, b.id)

\* A key-deletion request under a key of one account that names a stored key
\* of another is answered 404.
ForeignKeyStep ==
    \A p \in Procs, t \in {AliceKey, BobKey}, k \in KeyIds :
        ( /\ ev'.op = "delete_key"
          /\ verify_api_key(t) # NoId /\ IsStored(k)
          /\ OwnerOf(verify_api_key(t)) # OwnerOf(k)
          /\ DeleteKey(p, t, k) ) =>
            (ev'.status = 404 /\ IsStored(k)')

OwnershipStep == IsolationStep /\ ForeignKeyStep

\* C29: sync_homepage, delete_daemon and DELETE /keys/{key_id} under account
\* A's credential create, change and delete no profile and no credential of
\* another account, also when that account has a profile of the same handle
\* or the request names its key id, which is answered 404.
C29_OwnershipIsolation == [][OwnershipStep]_vars

\* alice and bob each have a profile h1, and a request under alice's key to
\* delete a key by id, every id of the range being stored, has been answered
\* 404: the id was bob's.
C29_Witness ==
    /\ ev.op = "delete_key" /\ ev.status = 404 /\ ev.verified = 1
    /\ \A k \in KeyIds : IsStored(k)
    /\ \E k \in api_keys : k.user_id = 2
    /\ get_daemon_by_handle(1, "h1") # {} /\ get_daemon_by_handle(2, "h1") # {}

\* The row's identity metadata has null for a list the query filters on.
LacksFiltered(d, q) ==
    \E c \in {[key |-> "values", wanted |-> q.values],
              [key |-> "interests", wanted |-> q.interests],
              [key |-> "looking_for", wanted |-> q.looking_for]} :
        c.wanted # NoText /\ meta_get(d.identity_meta_json, c.key).none

\* C30: a discovery query among whose candidates is a public profile with no
\* list for a filtered attribute succeeds, and its results are without that
\* profile.
C30_MissingListExcluded ==
    (ev.op = "discover_daemons" /\ ev.params.limit \in PerPageMin..PerPageMax) =>
        LET rows == discover_rows(ev.params.lineage, ev.params.limit)
        IN  \A j \in 1..Len(rows) :
                LacksFiltered(rows[j], ev.params) =>
                    /\ ev.status = 200
                    /\ \A k \in 1..Len(ev.body) : ev.body[k] # rows[j].id

====
